---- MODULE Spec2Model ----
(***************************************************************************)
(* Card dealing and secret disclosure engine of secret-poker               *)
(* (src/src/contract.rs, src/src/state.rs, src/src/msg.rs,                 *)
(* src/src/error.rs) as a state machine.                                   *)
(*                                                                         *)
(* u64 and u128 values are little-endian sequences of 16-bit limbs (4 and  *)
(* 8 of them), so wrapping arithmetic keeps its real width.  An absent     *)
(* Option is the empty sequence, Some(x) is <<x>>.                         *)
(***************************************************************************)
EXTENDS Integers, Sequences, FiniteSets, TLC

VARIABLES
    tables,     \* TABLES_STORE: table id -> Option<PokerTable>
    counter,    \* COUNTER_KEY: u128
    config,     \* CONFIG_KEY: Config
    now,        \* block time of the latest block the host executed
    hands,      \* number of StartGame calls that succeeded (bounds the run)
    req,        \* Option: the execute message being answered, with its sender
    resp,       \* Option: what execute returned for req
    share_in,   \* additive_secret_sharing called on its own: the arguments
    share_out,  \* ... and its result
    shuffle     \* shuffle_deck called on its own: the locals of the call

vars == <<tables, counter, config, now, hands, req, resp, share_in, share_out, shuffle>>

---------------------------------------------------------------------------
(* Bounds of the model *)

\* StartGame calls that may succeed in one behaviour
MaxHands == 2
\* block times run over 1..MaxTime
MaxTime == 2

(* Program constants *)
MIN_PLAYERS == 2
MAX_PLAYERS == 9
COMMUNITY_CARD_PHASES == 3
RANDOM_SEED_SIZE == 16

---------------------------------------------------------------------------
(* Fixed-width unsigned integers as little-endian 16-bit limbs *)

LimbBase == 2^16
U64Limbs == 64 \div 16
U128Limbs == 128 \div 16

\* a function on 1..n as the sequence it is
AsSeq(f) == SubSeq(f, 1, Len(f))

\* the element of a one-element set: The({e(x) : x \in {v}}) is e(v) with v
\* computed once
The(S) == CHOOSE x \in S : TRUE

Const(n, v) == AsSeq([i \in 1..n |-> IF i = 1 THEN v ELSE 0])
AllOnes(n) == AsSeq([i \in 1..n |-> LimbBase - 1])
U64Zero == Const(U64Limbs, 0)
U64Max == AllOnes(U64Limbs)
U128Max == AllOnes(U128Limbs)

RECURSIVE CarryOut(_, _, _)
CarryOut(a, b, i) ==
    IF i = 0 THEN 0 ELSE (a[i] + b[i] + CarryOut(a, b, i - 1)) \div LimbBase

\* u64::wrapping_add, and the wrapped result of `+` on u128
wrapping_add(a, b) ==
    AsSeq([i \in 1..Len(a) |-> (a[i] + b[i] + CarryOut(a, b, i - 1)) % LimbBase])

\* whether a + b leaves the width
AddOverflows(a, b) == CarryOut(a, b, Len(a)) = 1

RECURSIVE BorrowOut(_, _, _)
BorrowOut(a, b, i) ==
    IF i = 0 THEN 0
    ELSE IF a[i] - b[i] - BorrowOut(a, b, i - 1) < 0 THEN 1 ELSE 0

\* u64::wrapping_sub
wrapping_sub(a, b) ==
    AsSeq([i \in 1..Len(a) |->
            (a[i] - b[i] - BorrowOut(a, b, i - 1) + LimbBase) % LimbBase])

\* a < b
Less(a, b) == BorrowOut(a, b, Len(a)) = 1

\* remainder left after dividing limbs Len(a)..i of a by the small number m
RECURSIVE RemFrom(_, _, _)
RemFrom(a, m, i) ==
    IF i > Len(a) THEN 0 ELSE (RemFrom(a, m, i + 1) * LimbBase + a[i]) % m

\* a / m (integer division by a small number)
DivSmall(a, m) ==
    AsSeq([i \in 1..Len(a) |-> (RemFrom(a, m, i + 1) * LimbBase + a[i]) \div m])

\* a % m
ModSmall(a, m) == RemFrom(a, m, 1)

RECURSIVE MulCarry(_, _, _)
MulCarry(a, m, i) ==
    IF i = 0 THEN 0 ELSE (a[i] * m + MulCarry(a, m, i - 1)) \div LimbBase

\* a * m (by a small number), wrapped to the width of a
MulSmall(a, m) ==
    AsSeq([i \in 1..Len(a) |-> (a[i] * m + MulCarry(a, m, i - 1)) % LimbBase])

\* uN::from_le_bytes: two bytes to a limb
from_le_bytes(bytes) ==
    AsSeq([i \in 1..(Len(bytes) \div 2) |-> bytes[2 * i - 1] + 256 * bytes[2 * i]])

\* uN::to_le_bytes
to_le_bytes(a) ==
    AsSeq([k \in 1..(2 * Len(a)) |->
            IF k % 2 = 1 THEN a[(k + 1) \div 2] % 256 ELSE a[k \div 2] \div 256])

---------------------------------------------------------------------------
(* The two hash functions.  Both are deterministic functions of their      *)
(* inputs whose outputs the program treats as random 64-bit words; here    *)
(* each picks a word of SampleWords by a fixed mix of its input bytes.     *)

SampleWords ==
    << <<0, 0, 0, 0>>,
       <<65535, 65535, 65535, 65535>>,
       <<1, 0, 0, 0>>,
       <<0, 0, 0, 32768>>,
       <<65535, 0, 65535, 32767>>,
       <<12345, 0, 0, 0>>,
       <<4660, 22136, 39612, 57072>> >>

RECURSIVE ByteMix(_, _)
ByteMix(bytes, k) ==
    IF k = 0 THEN 0 ELSE (ByteMix(bytes, k - 1) * 31 + bytes[k] + k) % 1009

\* hkdf_sha_512(salt, ikm, info, 64)[..8] as a little-endian u64
hkdf_sha_512(ikm, info) ==
    SampleWords[((ikm * 5 + ByteMix(info, Len(info))) % Len(SampleWords)) + 1]

\* a hasher that is never reset: its output also depends on the calls of
\* shuffle_deck that came before
Sha256_unreset(seed, deck_len, attempt_counter) ==
    SampleWords[((ByteMix(to_le_bytes(seed), 8) * (deck_len + 1) + 3 * deck_len
                    + attempt_counter + shuffle.run) % Len(SampleWords)) + 1]

\* Sha256 over seed, deck_len and attempt_counter (each 8 little-endian
\* bytes), first 8 bytes as a little-endian u64
Sha256(seed, deck_len, attempt_counter) ==
    SampleWords[((ByteMix(to_le_bytes(seed), 8) * (deck_len + 1) + 3 * deck_len
                    + attempt_counter) % Len(SampleWords)) + 1]

---------------------------------------------------------------------------
(* Cards and the deck (src/src/state.rs) *)

\* Card::new: (suit << 4) | rank
Card_new(suit, rank) == suit * 16 + rank

\* Card::suit: byte >> 4
Card_suit(card) == card \div 16

\* Card::rank: byte & 0b1111
Card_rank(card) == card % 16

SuitSymbols == <<"clubs", "diamonds", "hearts", "spades">>
RankSymbols == <<"A", "2", "3", "4", "5", "6", "7", "8", "9", "10", "J", "Q", "K">>

\* Card::to_string: the suit symbol followed by the rank symbol
Card_to_string(card) ==
    <<SuitSymbols[Card_suit(card) + 1], RankSymbols[Card_rank(card)]>>

\* Deck::new: suits 0..3, in each the ranks 1..13
Deck_new ==
    AsSeq([i \in 1..(4 * 13) |-> Card_new((i - 1) \div 13, ((i - 1) % 13) + 1)])

\* a swap that copies one way only
swap_overwrite(cards, a, b) ==
    AsSeq([k \in 1..Len(cards) |-> IF k = a + 1 THEN cards[b + 1] ELSE cards[k]])

\* Vec::swap on 0-based positions
swap(cards, a, b) ==
    AsSeq([k \in 1..Len(cards) |->
            IF k = a + 1 THEN cards[b + 1]
            ELSE IF k = b + 1 THEN cards[a + 1]
            ELSE cards[k]])

\* width of usize in limbs: 2 on the wasm32 target the contract is built for
Wasm32UsizeLimbs == 32 \div 16

\* ... and 4 on the 64-bit targets the tests run on
Native64UsizeLimbs == 64 \div 16

\* the rejection sampling loop of shuffle_deck: the first candidate below
\* threshold, as usize, modulo upper_bound
RECURSIVE rejection_sample(_, _, _, _, _)
rejection_sample(seed, deck_len, threshold, attempt_counter, usize_limbs) ==
    The({ IF Less(random_value, threshold)
          THEN ModSmall(SubSeq(random_value, 1, usize_limbs), deck_len + 1)
          ELSE rejection_sample(seed, deck_len, threshold, attempt_counter + 1,
                                usize_limbs)
          : random_value \in {Sha256(seed, deck_len, attempt_counter)} })

\* a threshold computed from u32::MAX
threshold_u32(upper_bound) ==
    MulSmall(DivSmall(<<LimbBase - 1, LimbBase - 1, 0, 0>>, upper_bound),
             upper_bound)

\* `(u64::MAX / upper_bound as u64) * upper_bound as u64`
threshold(upper_bound) == MulSmall(DivSmall(U64Max, upper_bound), upper_bound)

\* one pass of the while loop of shuffle_deck, entered with deck_len cards left
\* to place: the deck after the swap
shuffle_step(cards, deck_len, seed, usize_limbs) ==
    swap(cards, deck_len - 1,
         rejection_sample(seed, deck_len - 1, threshold(deck_len), 0, usize_limbs))

\* the while loop of shuffle_deck (deck_len never exceeds cards.len())
RECURSIVE shuffle_loop(_, _, _, _)
shuffle_loop(cards, deck_len, seed, usize_limbs) ==
    IF deck_len <= 1 \/ deck_len > Len(cards) THEN cards
    ELSE shuffle_loop(shuffle_step(cards, deck_len, seed, usize_limbs),
                      deck_len - 1, seed, usize_limbs)

\* helpers::shuffle_deck
shuffle_deck(cards, seed, usize_limbs) ==
    shuffle_loop(cards, Len(cards), seed, usize_limbs)

Range(f) == {f[x] : x \in DOMAIN f}

\* shuffle_deck(Deck::new(), seed) for the seeds the model can draw, computed once
ShuffledNewDeck ==
    [seed \in Range(SampleWords) |-> shuffle_deck(Deck_new, seed, Wasm32UsizeLimbs)]

---------------------------------------------------------------------------
(* Results: Ok, a typed error (Err), or a panic that aborts the call *)

Ok(fields) == [tag |-> "Ok"] @@ fields
Err(error) == [tag |-> "Err", error |-> error]
Panic(what) == [tag |-> "Panic", what |-> what]

None == <<>>
Some(x) == <<x>>
is_some(o) == Len(o) > 0
unwrap(o) == o[1]

\* ContractError (src/src/error.rs)
StdError(msg) == [kind |-> "Std", msg |-> msg]
Unauthorized == [kind |-> "Unauthorized"]
GameStateError_unnamed(method, table_id, game_state) ==
    [kind |-> "GameStateError", method |-> method, table_id |-> table_id,
     game_state |-> None]
GameStateError(method, table_id, game_state) ==
    [kind |-> "GameStateError", method |-> method, table_id |-> table_id,
     game_state |-> game_state]
CardsAlreadyRetrieved == [kind |-> "CardsAlreadyRetrieved"]
PlayerNotFound(table_id, player) ==
    [kind |-> "PlayerNotFound", table_id |-> table_id, player |-> player]
TableNotFound(table_id) == [kind |-> "TableNotFound", table_id |-> table_id]
SerializationFailed == [kind |-> "SerializationFailed"]
DuplicatePublicKeys == [kind |-> "DuplicatePublicKeys"]
InvalidPlayerCount(count) == [kind |-> "InvalidPlayerCount", count |-> count]

---------------------------------------------------------------------------
(* helpers: random derivation and additive secret sharing *)

U128One == Const(U128Limbs, 1)

\* helpers::generate_random_number.  env.random is Option<entropy>; build
\* says whether `+=` checks for overflow (it panics) or wraps.
generate_random_number(env, cnt, build) ==
    IF ~is_some(env.random) THEN Panic("unwrap on None")
    ELSE LET secret == hkdf_sha_512(unwrap(env.random), to_le_bytes(cnt))
         IN  IF AddOverflows(cnt, U128One) /\ build.overflow_checks
             THEN Panic("attempt to add with overflow")
             ELSE Ok([value |-> secret, counter |-> wrapping_add(cnt, U128One)])

\* the for loop of additive_secret_sharing with k iterations left
RECURSIVE sharing_loop(_, _, _, _, _, _)
sharing_loop(env, k, shares, sum, cnt, build) ==
    IF k = 0 THEN Ok([shares |-> shares, sum |-> sum, counter |-> cnt])
    ELSE The({ IF r.tag # "Ok" THEN r
               ELSE sharing_loop(env, k - 1, Append(shares, r.value),
                                 wrapping_add(sum, r.value), r.counter, build)
               : r \in {generate_random_number(env, cnt, build)} })

\* a sharing whose last share is the secret itself
additive_secret_sharing_unbalanced(env, players, secret, cnt, build) ==
    The({ IF l.tag # "Ok" THEN l
          ELSE Ok([shares |-> Append(l.shares, secret), counter |-> l.counter])
          : l \in {sharing_loop(env, players - 1, <<>>, U64Zero, cnt, build)} })

\* helpers::additive_secret_sharing
additive_secret_sharing(env, players, secret, cnt, build) ==
    The({ IF l.tag # "Ok" THEN l
          ELSE Ok([shares |-> Append(l.shares, wrapping_sub(secret, l.sum)),
                   counter |-> l.counter])
          : l \in {sharing_loop(env, players - 1, <<>>, U64Zero, cnt, build)} })

RECURSIVE SumShares(_)
\* the wrapping sum of a sequence of u64 (addition_shares of the tests)
SumShares(shares) ==
    IF Len(shares) = 0 THEN U64Zero
    ELSE wrapping_add(SumShares(SubSeq(shares, 1, Len(shares) - 1)),
                      shares[Len(shares)])

---------------------------------------------------------------------------
(* Storage (src/src/state.rs).  A storage is [tables, counter]; fault names *)
(* the write or encoding step, if any, that fails in this call.            *)

OkUnit == [tag |-> "Ok"]

\* state::load_table
load_table(storage, key) == storage.tables[key]

\* a store with one slot for all table ids
save_table_shared(storage, key, item, fault) ==
    IF fault = "table_write"
    THEN Err(StdError("Failed to save table"))
    ELSE Ok([storage |-> [storage EXCEPT
                !.tables = [k \in DOMAIN storage.tables |->
                               IF is_some(storage.tables[k]) \/ k = key
                               THEN Some(item) ELSE None]]])

\* state::save_table
save_table(storage, key, item, fault) ==
    IF fault = "table_write"
    THEN Err(StdError("Failed to save table"))
    ELSE Ok([storage |-> [storage EXCEPT !.tables[key] = Some(item)]])

\* a counter write whose failure goes unreported
save_counter_unreported(storage, cnt, fault) ==
    IF fault = "counter_write"
    THEN Ok([storage |-> storage])
    ELSE Ok([storage |-> [storage EXCEPT !.counter = cnt]])

\* a save that keeps the stored counter
save_counter_dropped(storage, cnt, fault) ==
    IF fault = "counter_write"
    THEN Err(StdError("counter not saved"))
    ELSE Ok([storage |-> storage])

\* COUNTER_KEY.save
save_counter(storage, cnt, fault) ==
    IF fault = "counter_write"
    THEN Err(StdError("counter not saved"))
    ELSE Ok([storage |-> [storage EXCEPT !.counter = cnt]])

\* a load that reports a missing table as a generic error
load_table_or_error_generic(storage, table_id) ==
    IF is_some(load_table(storage, table_id))
    THEN Ok([table |-> unwrap(load_table(storage, table_id))])
    ELSE Err(StdError("No table found"))

\* state_utils::load_table_or_error
load_table_or_error(storage, table_id) ==
    LET table == load_table(storage, table_id)
    IN  IF is_some(table) THEN Ok([table |-> unwrap(table)])
        ELSE Err(TableNotFound(table_id))

\* a lookup that takes the player id for the seat number
find_player_by_seat(players, player_id) ==
    IF player_id \in 1..Len(players) THEN Some(players[player_id]) ELSE None

\* Iterator::find on the players of a table, by player id
find_player(players, player_id) ==
    LET hits == {i \in 1..Len(players) : players[i].player_id = player_id}
    IN  IF hits = {} THEN None
        ELSE Some(players[CHOOSE i \in hits : \A j \in hits : i <= j])

\* Uuid::to_string: the hyphenated text of a player id
UuidText ==
    <<"2928c53b-5d14-4a7c-b56e-83ef56a0644e",
      "8f204fcc-54a5-4473-8ac3-4845bff291ab",
      "e6799ecf-f202-418a-a535-0b42509f69f7",
      "00000000-0000-4000-8000-000000000004",
      "00000000-0000-4000-8000-000000000005",
      "00000000-0000-4000-8000-000000000006",
      "00000000-0000-4000-8000-000000000007",
      "00000000-0000-4000-8000-000000000008",
      "00000000-0000-4000-8000-000000000009",
      "00000000-0000-4000-8000-00000000000a",
      "aaaaaaaa-bbbb-cccc-dddd-eeeeeeeeeeee">>
Uuid_to_string(id) == UuidText[id]

---------------------------------------------------------------------------
(* execute_handlers: StartGame *)

\* serialize_response
serialize_response(payload, fault) ==
    IF fault = "encode" THEN Err(SerializationFailed)
    ELSE Ok([json |-> payload])

\* create_plaintext_response: a Response with one plaintext attribute
create_plaintext_response(key, payload, fault) ==
    The({ IF j.tag # "Ok" THEN j
          ELSE Ok([response |-> [attributes |-> <<[key |-> key, value |-> j.json]>>]])
          : j \in {serialize_response(payload, fault)} })

\* a validation of the player count alone
validate_player_count(players_info) ==
    IF ~(Len(players_info) \in MIN_PLAYERS..MAX_PLAYERS)
    THEN Err([kind |-> "InvalidPlayerCount", count |-> Len(players_info)])
    ELSE [tag |-> "Ok"]

\* validate_players
validate_players(players_info) ==
    IF ~(Len(players_info) \in MIN_PLAYERS..MAX_PLAYERS)
    THEN Err(InvalidPlayerCount(Len(players_info)))
    ELSE LET unique_keys ==
                 {players_info[i].public_key : i \in 1..Len(players_info)}
         IN  IF Cardinality(unique_keys) # Len(players_info)
             THEN Err(DuplicatePublicKeys)
             ELSE OkUnit

\* create_previous_hand_log
create_previous_hand_log(storage, table_id, showdown_player_ids) ==
    LET table == load_table(storage, table_id)
    IN  IF is_some(table)
        THEN LET t == unwrap(table)
                 cc == t.community_cards
             IN  IF \E i \in 1..Len(showdown_player_ids) :
                        ~is_some(find_player(t.players, showdown_player_ids[i]))
                 THEN Panic("unwrap on None")
                 ELSE Ok([log |-> Some(
                     [showdown_players |->
                          [i \in 1..Len(showdown_player_ids) |->
                              LET player == unwrap(find_player(t.players,
                                                    showdown_player_ids[i]))
                              IN  [username |-> player.username,
                                   hand |-> [k \in 1..Len(player.hand) |->
                                                Card_to_string(player.hand[k])]]],
                      community_cards |->
                          [k \in 1..Len(cc.flop.cards) |->
                              Card_to_string(cc.flop.cards[k])]
                          \o <<Card_to_string(cc.turn.card)>>
                          \o <<Card_to_string(cc.river.card)>>,
                      flop_retrieved_at |-> cc.flop.retrieved_at,
                      turn_retrieved_at |-> cc.turn.retrieved_at,
                      river_retrieved_at |-> cc.river.retrieved_at,
                      showdown_retrieved_at |-> t.showdown_retrieved_at])])
        ELSE Ok([log |-> None])

\* a deck shuffled with a fixed seed, without a draw
initialize_deck_unseeded(env, cnt, build) ==
    IF ~is_some(env.random) THEN Panic("unwrap on None")
    ELSE Ok([deck |-> ShuffledNewDeck[SampleWords[3]], counter |-> cnt])

\* initialize_deck
initialize_deck(env, cnt, build) ==
    The({ IF r.tag # "Ok" THEN r
          ELSE Ok([deck |-> ShuffledNewDeck[r.value], counter |-> r.counter])
          : r \in {generate_random_number(env, cnt, build)} })

\* a draw that leaves the card in the deck
pop_keep(cards) == [card |-> cards[Len(cards)], rest |-> cards]

\* a draw from the front of the deck
pop_front(cards) == [card |-> cards[1], rest |-> SubSeq(cards, 2, Len(cards))]

\* Vec::pop on a deck that holds a card
pop(cards) ==
    [card |-> cards[Len(cards)], rest |-> SubSeq(cards, 1, Len(cards) - 1)]

\* distribute_player_cards: two pops for each player, in player order
RECURSIVE distribute_player_cards(_, _)
distribute_player_cards(deck, players) ==
    IF Len(players) = 0 THEN [deck |-> deck, player_cards |-> <<>>]
    ELSE The({ The({ The({ [deck |-> others.deck,
                            player_cards |->
                                <<[public_key |-> Head(players).public_key,
                                   cards |-> <<p1.card, p2.card>>]>>
                                \o others.player_cards]
                           : others \in {distribute_player_cards(p2.rest, Tail(players))} })
                     : p2 \in {pop(p1.rest)} })
               : p1 \in {pop(deck)} })

\* collect_cards: count pops
RECURSIVE collect_cards(_, _)
collect_cards(deck, count) ==
    IF count = 0 THEN [deck |-> deck, cards |-> <<>>]
    ELSE The({ The({ [deck |-> others.deck, cards |-> <<p.card>> \o others.cards]
                     : others \in {collect_cards(p.rest, count - 1)} })
               : p \in {pop(deck)} })

\* the for loop of generate_community_cards with k phases left
RECURSIVE phase_secrets_loop(_, _, _, _, _, _)
phase_secrets_loop(env, k, secrets, cnt, player_count, build) ==
    IF k = 0 THEN Ok([secrets |-> secrets, counter |-> cnt])
    ELSE The({ IF r.tag # "Ok" THEN r
               ELSE The({ IF sh.tag # "Ok" THEN sh
                          ELSE phase_secrets_loop(env, k - 1,
                                   Append(secrets, [secret |-> r.value,
                                                    shares |-> sh.shares]),
                                   sh.counter, player_count, build)
                          : sh \in {additive_secret_sharing(env, player_count,
                                        r.value, r.counter, build)} })
               : r \in {generate_random_number(env, cnt, build)} })

\* generate_community_cards
generate_community_cards(env, cnt, deck, player_count, build) ==
    The({ IF l.tag # "Ok" THEN l
          ELSE The({ The({ The({
                   Ok([community_cards |->
                           [flop |-> [cards |-> f.cards,
                                      secret |-> l.secrets[1].secret,
                                      retrieved_at |-> None],
                            turn |-> [card |-> t.card,
                                      secret |-> l.secrets[2].secret,
                                      retrieved_at |-> None],
                            river |-> [card |-> r.card,
                                       secret |-> l.secrets[3].secret,
                                       retrieved_at |-> None]],
                       secrets |-> l.secrets,
                       deck |-> r.rest,
                       counter |-> l.counter])
                   : r \in {pop(t.rest)} })
                   : t \in {pop(f.deck)} })
                   : f \in {collect_cards(deck, 3)} })
          : l \in {phase_secrets_loop(env, COMMUNITY_CARD_PHASES, <<>>, cnt,
                                      player_count, build)} })

\* create_players: player i takes hand i, a fresh hand secret and share i of
\* each phase
RECURSIVE create_players_loop(_, _, _, _, _, _, _)
create_players_loop(players_info, player_cards, secrets, env, cnt, build, done) ==
    IF Len(done) >= Len(players_info) \/ Len(done) >= Len(player_cards)
    THEN Ok([players |-> done, counter |-> cnt])
    ELSE The({ IF r.tag # "Ok" THEN r
               ELSE create_players_loop(players_info, player_cards, secrets,
                        env, r.counter, build,
                        Append(done,
                            [username |-> players_info[i].username,
                             player_id |-> players_info[i].player_id,
                             public_key |-> players_info[i].public_key,
                             hand |-> player_cards[i].cards,
                             hand_secret |-> r.value,
                             flop_secret_share |-> secrets[1].shares[i],
                             turn_secret_share |-> secrets[2].shares[i],
                             river_secret_share |-> secrets[3].shares[i]]))
               : r \in {generate_random_number(env, cnt, build)},
                 i \in {Len(done) + 1} })

\* players that all take the first share of each phase
create_players_first_share(players_info, player_cards, secrets, env, cnt, build) ==
    create_players_loop(players_info, player_cards,
        [k \in 1..Len(secrets) |->
            [secret |-> secrets[k].secret,
             shares |-> [i \in 1..Len(secrets[k].shares) |-> secrets[k].shares[1]]]],
        env, cnt, build, <<>>)

\* create_players
create_players(players_info, player_cards, secrets, env, cnt, build) ==
    create_players_loop(players_info, player_cards, secrets, env, cnt, build, <<>>)

\* a response that carries the game data alone
create_start_game_response_unlogged(table_id, hand_ref, players, previous_hand_log, fault) ==
    create_plaintext_response("response",
        [type |-> "start_game", table_id |-> table_id, hand_ref |-> hand_ref,
         players |-> [i \in 1..Len(players) |-> players[i].username]],
        fault)

\* a response that also publishes the hands dealt
create_start_game_response_hands(table_id, hand_ref, players, previous_hand_log, fault) ==
    create_plaintext_response("response",
        [type |-> "start_game", table_id |-> table_id, hand_ref |-> hand_ref,
         players |-> [i \in 1..Len(players) |-> players[i].username],
         hands |-> [i \in 1..Len(players) |-> players[i].hand]],
        fault)

\* create_start_game_response
create_start_game_response(table_id, hand_ref, players, previous_hand_log, fault) ==
    The({ IF res.tag # "Ok" THEN res
          ELSE IF is_some(previous_hand_log)
          THEN The({ IF j.tag # "Ok" THEN j
                     ELSE Ok([response |->
                         [attributes |-> res.response.attributes
                             \o <<[key |-> "previous_hand_log", value |-> j.json]>>]])
                     : j \in {serialize_response(
                                 [type |-> "last_hand"] @@ unwrap(previous_hand_log),
                                 fault)} })
          ELSE res
          : res \in {create_plaintext_response("response",
                        [type |-> "start_game", table_id |-> table_id,
                         hand_ref |-> hand_ref,
                         players |-> [i \in 1..Len(players) |-> players[i].username]],
                        fault)} })

\* a table that keeps the showdown of the hand before it
PokerTable_shown(hand_ref, players, community_cards) ==
    [hand_ref |-> hand_ref,
     players |-> players,
     community_cards |-> community_cards,
     showdown_retrieved_at |-> <<0>>]

\* the PokerTable handle_start_game builds: no reveal has happened
PokerTable(hand_ref, players, community_cards) ==
    [hand_ref |-> hand_ref,
     players |-> players,
     community_cards |-> community_cards,
     showdown_retrieved_at |-> None]

\* handle_start_game from the counter load to the PokerTable: the deal
deal_table(env, cnt, hand_ref, players_info, build) ==
    The({ IF dk.tag # "Ok" THEN dk
          ELSE The({ The({
                   IF cc.tag # "Ok" THEN cc
                   ELSE The({ IF pl.tag # "Ok" THEN pl
                              ELSE Ok([table |-> PokerTable(hand_ref, pl.players,
                                                            cc.community_cards),
                                       counter |-> pl.counter])
                              : pl \in {create_players(players_info, pc.player_cards,
                                            cc.secrets, env, cc.counter, build)} })
                   : cc \in {generate_community_cards(env, dk.counter, pc.deck,
                                 Len(players_info), build)} })
                   : pc \in {distribute_player_cards(dk.deck, players_info)} })
          : dk \in {initialize_deck(env, cnt, build)} })

\* handle_start_game from save_table on: the two writes, then the response
store_and_respond(storage, table_id, hand_ref, table, cnt, previous_hand_log, fault) ==
    The({ IF st.tag # "Ok" THEN [result |-> st, storage |-> storage]
          ELSE The({ IF sc.tag # "Ok" THEN [result |-> sc, storage |-> st.storage]
                     ELSE [result |-> create_start_game_response(table_id, hand_ref,
                                          table.players, previous_hand_log, fault),
                           storage |-> sc.storage]
                     : sc \in {save_counter(st.storage, cnt, fault)} })
          : st \in {save_table(storage, table_id, table, fault)} })

\* handle_start_game: the result and the storage as the handler leaves it
handle_start_game(storage, env, table_id, hand_ref, players_info, prev_hand_showdown_players, build, fault) ==
    The({ IF v.tag # "Ok" THEN [result |-> v, storage |-> storage]
          ELSE The({
              IF lg.tag # "Ok" THEN [result |-> lg, storage |-> storage]
              ELSE The({ IF d.tag # "Ok" THEN [result |-> d, storage |-> storage]
                         ELSE store_and_respond(storage, table_id, hand_ref, d.table,
                                                d.counter, lg.log, fault)
                         : d \in {deal_table(env, storage.counter, hand_ref,
                                             players_info, build)} })
              : lg \in {create_previous_hand_log(storage, table_id,
                                                 prev_hand_showdown_players)} })
          : v \in {validate_players(players_info)} })

---------------------------------------------------------------------------
(* execute_handlers: CommunityCards and Showdown *)

\* the phases handle_community_cards reveals
RevealPhases == {"Flop", "Turn", "River"}

\* the phase's part of the community cards
phase_of(community_cards, game_state) ==
    CASE game_state = "Flop" -> community_cards.flop
      [] game_state = "Turn" -> community_cards.turn
      [] game_state = "River" -> community_cards.river

\* the phase's cards as a Vec<Card>
phase_cards(community_cards, game_state) ==
    CASE game_state = "Flop" -> community_cards.flop.cards
      [] game_state = "Turn" -> <<community_cards.turn.card>>
      [] game_state = "River" -> <<community_cards.river.card>>

\* a check that never finds the phase retrieved
never_retrieved(community_cards, game_state) == FALSE

\* a check that also refuses the turn before the flop and the river before
\* the turn
retrieved_or_early(community_cards, game_state) ==
    \/ is_some(phase_of(community_cards, game_state).retrieved_at)
    \/ game_state = "Turn" /\ ~is_some(community_cards.flop.retrieved_at)
    \/ game_state = "River" /\ ~is_some(community_cards.turn.retrieved_at)

\* `if table.community_cards.<phase>.retrieved_at.is_some()`
already_retrieved(community_cards, game_state) ==
    is_some(phase_of(community_cards, game_state).retrieved_at)

\* a write of the phase's timestamp that resets the other two phases
set_only_retrieved_at(table, game_state, time) ==
    LET fresh == [table EXCEPT !.community_cards.flop.retrieved_at = <<>>,
                               !.community_cards.turn.retrieved_at = <<>>,
                               !.community_cards.river.retrieved_at = <<>>]
    IN  CASE game_state = "Flop" ->
                 [fresh EXCEPT !.community_cards.flop.retrieved_at = <<time>>]
          [] game_state = "Turn" ->
                 [fresh EXCEPT !.community_cards.turn.retrieved_at = <<time>>]
          [] game_state = "River" ->
                 [fresh EXCEPT !.community_cards.river.retrieved_at = <<time>>]

\* `table.community_cards.<phase>.retrieved_at = Some(env.block.time)`
set_retrieved_at(table, game_state, time) ==
    CASE game_state = "Flop" ->
             [table EXCEPT !.community_cards.flop.retrieved_at = Some(time)]
      [] game_state = "Turn" ->
             [table EXCEPT !.community_cards.turn.retrieved_at = Some(time)]
      [] game_state = "River" ->
             [table EXCEPT !.community_cards.river.retrieved_at = Some(time)]

\* a reveal that draws a random number, and so advances the counter
handle_community_cards_drawing(storage, env, table_id, game_state, fault) ==
    The({ IF ld.tag # "Ok" THEN [result |-> ld, storage |-> storage]
          ELSE IF game_state \notin RevealPhases
          THEN [result |-> Err(GameStateError("distribute_community_cards",
                                              table_id, Some(game_state))),
                storage |-> storage]
          ELSE IF already_retrieved(ld.table.community_cards, game_state)
          THEN [result |-> Err(CardsAlreadyRetrieved), storage |-> storage]
          ELSE [result |-> create_plaintext_response("response",
                               [type |-> "community_cards", table_id |-> table_id,
                                hand_ref |-> ld.table.hand_ref,
                                game_state |-> game_state,
                                community_cards |->
                                    phase_cards(ld.table.community_cards,
                                                game_state)], fault),
                storage |-> [tables |-> [storage.tables EXCEPT ![table_id] =
                                Some(set_retrieved_at(ld.table, game_state, env.time))],
                             counter |-> wrapping_add(storage.counter, U128One)]]
          : ld \in {load_table_or_error(storage, table_id)} })

\* handle_community_cards
handle_community_cards(storage, env, table_id, game_state, fault) ==
    The({ IF ld.tag # "Ok" THEN [result |-> ld, storage |-> storage]
          ELSE IF game_state \notin RevealPhases
          THEN [result |-> Err(GameStateError("distribute_community_cards",
                                              table_id, Some(game_state))),
                storage |-> storage]
          ELSE IF already_retrieved(ld.table.community_cards, game_state)
          THEN [result |-> Err(CardsAlreadyRetrieved), storage |-> storage]
          ELSE The({
              IF st.tag # "Ok" THEN [result |-> st, storage |-> storage]
              ELSE [result |-> create_plaintext_response("response",
                                   [type |-> "community_cards", table_id |-> table_id,
                                    hand_ref |-> ld.table.hand_ref,
                                    game_state |-> game_state,
                                    community_cards |->
                                        phase_cards(ld.table.community_cards,
                                                    game_state)], fault),
                    storage |-> st.storage]
              : st \in {save_table(storage, table_id,
                            set_retrieved_at(ld.table, game_state, env.time), fault)} })
          : ld \in {load_table_or_error(storage, table_id)} })

\* the cards of the phases after game_state that no reveal has published
handle_all_in_showdown_unrevealed(community_cards, game_state) ==
    IF game_state = "River" THEN None
    ELSE Some((IF game_state = "PreFlop" /\ ~is_some(community_cards.flop.retrieved_at)
               THEN community_cards.flop.cards ELSE <<>>)
              \o (IF game_state \in {"PreFlop", "Flop"}
                     /\ ~is_some(community_cards.turn.retrieved_at)
                  THEN <<community_cards.turn.card>> ELSE <<>>)
              \o (IF ~is_some(community_cards.river.retrieved_at)
                  THEN <<community_cards.river.card>> ELSE <<>>))

\* handle_all_in_showdown: Option<Vec<Card>>
handle_all_in_showdown(community_cards, game_state) ==
    CASE game_state = "PreFlop" ->
             Some(community_cards.flop.cards
                    \o <<community_cards.turn.card>>
                    \o <<community_cards.river.card>>)
      [] game_state = "Flop" ->
             Some(<<community_cards.turn.card, community_cards.river.card>>)
      [] game_state = "Turn" -> Some(<<community_cards.river.card>>)
      [] OTHER -> None

\* a check that never finds the showdown retrieved
showdown_never_retrieved(table) == FALSE

\* `if table.showdown_retrieved_at.is_some()`
showdown_already_retrieved(table) == is_some(table.showdown_retrieved_at)

\* a showdown that also stamps the three phases
set_all_retrieved_at(table, time) ==
    [table EXCEPT !.showdown_retrieved_at = Some(time),
                  !.community_cards.flop.retrieved_at = Some(time),
                  !.community_cards.turn.retrieved_at = Some(time),
                  !.community_cards.river.retrieved_at = Some(time)]

\* `table.showdown_retrieved_at = Some(env.block.time)`
set_showdown_retrieved_at(table, time) ==
    [table EXCEPT !.showdown_retrieved_at = Some(time)]

\* the last of the positions whose id is no player of the table
last_missing(missing) == CHOOSE i \in missing : \A j \in missing : i >= j

\* the position at which the `for` loop of handle_showdown returns PlayerNotFound
first_missing(missing) == CHOOSE i \in missing : \A j \in missing : i <= j

\* handle_showdown
handle_showdown(storage, env, table_id, game_state, showdown_player_ids, fault) ==
    The({ IF ld.tag # "Ok" THEN [result |-> ld, storage |-> storage]
          ELSE IF showdown_already_retrieved(ld.table)
          THEN [result |-> Err(CardsAlreadyRetrieved), storage |-> storage]
          ELSE The({
              IF missing # {}
              THEN [result |-> Err(PlayerNotFound(table_id,
                        Uuid_to_string(showdown_player_ids[first_missing(missing)]))),
                    storage |-> storage]
              ELSE The({
                  IF st.tag # "Ok" THEN [result |-> st, storage |-> storage]
                  ELSE [result |-> create_plaintext_response("response",
                            [type |-> "showdown", table_id |-> table_id,
                             hand_ref |-> ld.table.hand_ref,
                             players_cards |->
                                 [i \in 1..Len(showdown_player_ids) |->
                                     The({ <<player.player_id, player.hand>>
                                           : player \in {unwrap(find_player(
                                                 ld.table.players,
                                                 showdown_player_ids[i]))} })],
                             community_cards |->
                                 handle_all_in_showdown(ld.table.community_cards,
                                                        game_state)], fault),
                        storage |-> st.storage]
                  : st \in {save_table(storage, table_id,
                                set_showdown_retrieved_at(ld.table, env.time), fault)} })
              : missing \in {{i \in 1..Len(showdown_player_ids) :
                                ~is_some(find_player(ld.table.players,
                                                     showdown_player_ids[i]))}} })
          : ld \in {load_table_or_error(storage, table_id)} })

---------------------------------------------------------------------------
(* Entry points *)

\* to_binary: the JSON bytes of a value, as a Binary
to_binary(value) == Ok([binary |-> [json |-> value]])

\* the decimal digits of a, most significant first (none for 0)
RECURSIVE DecimalDigits(_)
DecimalDigits(a) ==
    IF a = Const(Len(a), 0) THEN <<>>
    ELSE Append(DecimalDigits(DivSmall(a, 10)), ModSmall(a, 10))

\* u64::to_string: the decimal text, as its sequence of digits
u64_to_string(a) == IF a = Const(Len(a), 0) THEN <<0>> ELSE DecimalDigits(a)

\* find on the players of a table, by public key
find_by_public_key(players, pub_key) ==
    The({ IF hits = {} THEN None
          ELSE Some(players[CHOOSE i \in hits : \A j \in hits : i <= j])
          : hits \in {{i \in 1..Len(players) : players[i].public_key = pub_key}} })

\* the PlayerDataResponse of a player
PlayerDataResponse(table_id, table, player) ==
    [table_id |-> table_id,
     hand_ref |-> table.hand_ref,
     hand |-> player.hand,
     hand_secret |-> u64_to_string(player.hand_secret),
     flop_secret_share |-> u64_to_string(player.flop_secret_share),
     turn_secret_share |-> u64_to_string(player.turn_secret_share),
     river_secret_share |-> u64_to_string(player.river_secret_share)]

\* a query that answers with the data of the table's first player
query_player_private_data_first(storage, table_id, pub_key) ==
    The({ IF ~is_some(table) THEN Err(StdError("No table found"))
          ELSE IF ~is_some(find_by_public_key(unwrap(table).players, pub_key))
          THEN Err(StdError("No player found"))
          ELSE Ok([value |-> PlayerDataResponse(table_id, unwrap(table),
                                                unwrap(table).players[1])])
          : table \in {load_table(storage, table_id)} })

\* query_handlers::query_player_private_data
query_player_private_data(storage, table_id, pub_key) ==
    The({ IF ~is_some(table) THEN Err(StdError("No table found"))
          ELSE The({ IF ~is_some(player) THEN Err(StdError("No player found"))
                     ELSE Ok([value |-> PlayerDataResponse(table_id, unwrap(table),
                                                           unwrap(player))])
                     : player \in {find_by_public_key(unwrap(table).players,
                                                      pub_key)} })
          : table \in {load_table(storage, table_id)} })

\* query_handlers::handle_permit_query, for the viewer (a public key) that
\* the validation of the permit returned
handle_permit_query(storage, viewer, query) ==
    The({ IF r.tag # "Ok" THEN r
          ELSE The({ IF j.tag # "Ok" THEN Err(StdError("serialization"))
                     ELSE to_binary([serialized |-> j.json])
                     : j \in {serialize_response(r.value, "none")} })
          : r \in {query_player_private_data(storage, query.table_id, viewer)} })

\* a query that a reveal of the phase closes
query_community_cards_unrevealed(storage, table_id, game_state, secret_key) ==
    The({ IF ~is_some(table) THEN Err(StdError("No table found"))
          ELSE IF game_state \notin RevealPhases
          THEN Err(StdError("Invalid game state"))
          ELSE IF \/ phase_of(unwrap(table).community_cards, game_state).secret
                        # secret_key
                  \/ is_some(phase_of(unwrap(table).community_cards,
                                      game_state).retrieved_at)
          THEN Err(StdError("Invalid viewing key"))
          ELSE Ok([value |-> [table_id |-> table_id,
                              hand_ref |-> unwrap(table).hand_ref,
                              game_state |-> game_state,
                              community_cards |->
                                  phase_cards(unwrap(table).community_cards,
                                              game_state)]])
          : table \in {load_table(storage, table_id)} })

\* query_handlers::query_community_cards
query_community_cards(storage, table_id, game_state, secret_key) ==
    The({ IF ~is_some(table) THEN Err(StdError("No table found"))
          ELSE IF game_state \notin RevealPhases
          THEN Err(StdError("Invalid game state"))
          ELSE IF phase_of(unwrap(table).community_cards, game_state).secret
                      # secret_key
          THEN Err(StdError("Invalid viewing key"))
          ELSE Ok([value |-> [table_id |-> table_id,
                              hand_ref |-> unwrap(table).hand_ref,
                              game_state |-> game_state,
                              community_cards |->
                                  phase_cards(unwrap(table).community_cards,
                                              game_state)]])
          : table \in {load_table(storage, table_id)} })

\* a phase of the showdown query that compares no secret
showdown_phase_unchecked(acc, community_cards, game_state, secret) ==
    IF acc.tag # "Ok" \/ ~is_some(secret) THEN acc
    ELSE Ok([cards |-> acc.cards \o phase_cards(community_cards, game_state)])

\* one `if let Some(secret)` block of query_showdown: the cards gathered so
\* far, extended by the phase's cards when its secret is supplied and right
showdown_phase(acc, community_cards, game_state, secret) ==
    IF acc.tag # "Ok" \/ ~is_some(secret) THEN acc
    ELSE IF phase_of(community_cards, game_state).secret # unwrap(secret)
    THEN Err(StdError("Invalid secret key"))
    ELSE Ok([cards |-> acc.cards \o phase_cards(community_cards, game_state)])

\* find on the players of a table, by hand secret
find_by_hand_secret(players, secret) ==
    The({ IF hits = {} THEN None
          ELSE Some(players[CHOOSE i \in hits : \A j \in hits : i <= j])
          : hits \in {{i \in 1..Len(players) : players[i].hand_secret = secret}} })

\* the map over players_secrets collected into a Result: the first secret
\* without a player ends it
RECURSIVE players_cards_loop(_, _, _)
players_cards_loop(players, players_secrets, done) ==
    IF Len(done) >= Len(players_secrets) THEN Ok([players_cards |-> done])
    ELSE The({ IF ~is_some(player) THEN Err(StdError("Player not found"))
               ELSE players_cards_loop(players, players_secrets,
                        Append(done, <<unwrap(player).player_id,
                                       unwrap(player).hand>>))
               : player \in {find_by_hand_secret(players,
                                 players_secrets[Len(done) + 1])} })

\* query_handlers::query_showdown
query_showdown(storage, table_id, flop_secret, turn_secret, river_secret, players_secrets) ==
    The({ IF ~is_some(table) THEN Err(StdError("No table found"))
          ELSE The({ IF cards.tag # "Ok" THEN cards
                     ELSE The({ IF hands_found.tag # "Ok" THEN hands_found
                                ELSE Ok([value |->
                                         [table_id |-> table_id,
                                          hand_ref |-> unwrap(table).hand_ref,
                                          players_cards |-> hands_found.players_cards,
                                          community_cards |-> Some(cards.cards)]])
                                : hands_found \in
                                    {players_cards_loop(unwrap(table).players,
                                                        players_secrets, <<>>)} })
                     : cards \in
                         {showdown_phase(
                            showdown_phase(
                              showdown_phase(Ok([cards |-> <<>>]),
                                  unwrap(table).community_cards, "Flop", flop_secret),
                              unwrap(table).community_cards, "Turn", turn_secret),
                            unwrap(table).community_cards, "River", river_secret)} })
          : table \in {load_table(storage, table_id)} })

\* the `?` on a handler's result, then to_binary
binary_of(r) == IF r.tag # "Ok" THEN r ELSE to_binary(r.value)

\* query: the arm of the message
query(storage, msg) ==
    CASE msg.op = "query_with_permit" ->
             handle_permit_query(storage, msg.viewer, msg.query)
      [] msg.op = "query_community_cards" ->
             The({ binary_of(r)
                   : r \in {query_community_cards(storage, msg.table_id,
                                                  msg.game_state, msg.secret_key)} })
      [] msg.op = "query_showdown" ->
             The({ binary_of(r)
                   : r \in {query_showdown(storage, msg.table_id, msg.flop_secret,
                                           msg.turn_secret, msg.river_secret,
                                           msg.players_secrets)} })

\* init_counter: the first RANDOM_SEED_SIZE bytes of the block's entropy as a
\* little-endian u128
init_counter(env) ==
    IF ~is_some(env.random)
    THEN Err(StdError("No random seed available"))
    ELSE Ok([counter |-> from_le_bytes(SubSeq(unwrap(env.random), 1, RANDOM_SEED_SIZE))])

\* an execute that lets anyone reveal community cards
execute_open_reveal(storage, cfg, env, info, msg, build, fault) ==
    IF info.sender # cfg.owner /\ msg.op # "community_cards"
    THEN [result |-> Err(Unauthorized), storage |-> storage]
    ELSE CASE msg.op = "start_game" ->
                  handle_start_game(storage, env, msg.table_id, msg.hand_ref,
                                    msg.players, msg.prev_hand_showdown_players,
                                    build, fault)
           [] msg.op = "community_cards" ->
                  handle_community_cards(storage, env, msg.table_id,
                                         msg.game_state, fault)
           [] msg.op = "showdown" ->
                  handle_showdown(storage, env, msg.table_id, msg.game_state,
                                  msg.showdown_player_ids, fault)

\* execute: the owner check, then the handler of the message
execute(storage, cfg, env, info, msg, build, fault) ==
    IF info.sender # cfg.owner
    THEN [result |-> Err(Unauthorized), storage |-> storage]
    ELSE CASE msg.op = "start_game" ->
                  handle_start_game(storage, env, msg.table_id, msg.hand_ref,
                                    msg.players, msg.prev_hand_showdown_players,
                                    build, fault)
           [] msg.op = "community_cards" ->
                  handle_community_cards(storage, env, msg.table_id,
                                         msg.game_state, fault)
           [] msg.op = "showdown" ->
                  handle_showdown(storage, env, msg.table_id, msg.game_state,
                                  msg.showdown_player_ids, fault)

\* The host's transaction: what a call that returns Ok wrote is committed, what
\* a call that returns an error or aborts wrote is discarded.
host_commit(before, outcome) ==
    IF outcome.result.tag = "Ok" THEN outcome.storage ELSE before

---------------------------------------------------------------------------
(* Inputs *)

TableIds == {1, 2}
GameStates == {"PreFlop", "Flop", "Turn", "River"}
Senders == {"creator", "stranger"}
Faults == {"none", "table_write", "counter_write", "encode"}

Usernames ==
    <<"player1", "player2", "player3", "player4", "player5", "player6",
      "player7", "player8", "player9", "player10">>
PublicKeys ==
    <<"key1", "key2", "key3", "key4", "key5", "key6", "key7", "key8", "key9",
      "key10">>

\* a StartGamePlayer
StartGamePlayer(i) ==
    [username |-> Usernames[i], player_id |-> i, public_key |-> PublicKeys[i]]

FirstPlayers(n) == AsSeq([i \in 1..n |-> StartGamePlayer(i)])

\* player lists with a valid count and distinct keys
\* the first n players, last first
LastFirst(n) == AsSeq([i \in 1..n |-> StartGamePlayer(n + 1 - i)])

\* player lists with a valid count and distinct keys: the smallest and the
\* largest table
ValidPlayerLists == { FirstPlayers(MIN_PLAYERS), LastFirst(MAX_PLAYERS) }

\* player lists validate_players rejects: 0, 1 and 10 players, and two players
\* with one public key
InvalidPlayerLists ==
    { FirstPlayers(0), FirstPlayers(1), FirstPlayers(MAX_PLAYERS + 1),
      <<StartGamePlayer(1), [StartGamePlayer(2) EXCEPT !.public_key = PublicKeys[1]]>> }

PlayerLists == ValidPlayerLists \cup InvalidPlayerLists

\* ids of the previous hand's showdown players: none, two players of every
\* table, and a list whose second id is a player of the 9-player list only
PrevShowdownLists == { <<>>, <<2, 1>>, <<1, 3>> }

\* ids asked for at showdown: two players of every table, and a list with two
\* ids (11, 10) that are players of no table
ShowdownIdLists == { <<1, 2>>, <<2, 11, 10>> }

\* env.block.random of an execute call: entropy, or none
Entropies == {Some(1), None}

\* entropy bytes of the block that instantiates the contract
InitEntropies == { <<250, 255, 0, 0, 0, 0, 0, 0, 0, 0, 0, 0, 0, 0, 0, 0, 7, 7>> }

\* builds that check `+=` for overflow, and builds that do not
Builds == {[overflow_checks |-> TRUE], [overflow_checks |-> FALSE]}

StartGameMsg(table_id, hand_ref, players, prev) ==
    [op |-> "start_game", table_id |-> table_id, hand_ref |-> hand_ref,
     players |-> players, prev_hand_showdown_players |-> prev]
CommunityCardsMsg(table_id, game_state) ==
    [op |-> "community_cards", table_id |-> table_id, game_state |-> game_state]
QueryCommunityCardsMsg(table_id, game_state, secret_key) ==
    [op |-> "query_community_cards", table_id |-> table_id,
     game_state |-> game_state, secret_key |-> secret_key]
PlayerPrivateDataMsg(table_id, viewer) ==
    [op |-> "query_with_permit", viewer |-> viewer,
     query |-> [op |-> "player_private_data", table_id |-> table_id],
     table_id |-> table_id]
QueryShowdownMsg(table_id, flop_secret, turn_secret, river_secret, players_secrets) ==
    [op |-> "query_showdown", table_id |-> table_id,
     flop_secret |-> flop_secret, turn_secret |-> turn_secret,
     river_secret |-> river_secret, players_secrets |-> players_secrets]
ShowdownMsg(table_id, game_state, ids) ==
    [op |-> "showdown", table_id |-> table_id, game_state |-> game_state,
     showdown_player_ids |-> ids]

---------------------------------------------------------------------------
(* The state machine *)

\* instantiate: the sender becomes the owner, the counter is seeded
instantiate(env, info) ==
    LET c == init_counter(env)
    IN  IF c.tag # "Ok" THEN c
        ELSE Ok([config |-> [owner |-> info.sender, contract_address |-> "contract"],
                 counter |-> c.counter])

NoShare == <<>>
NoShuffle == <<>>

Init ==
    /\ \E seed \in InitEntropies :
          LET i == instantiate([time |-> 1, random |-> Some(seed)],
                               [sender |-> "creator"])
          IN  /\ i.tag = "Ok"
              /\ config = i.config
              /\ counter = i.counter
    /\ tables = [t \in TableIds |-> None]
    /\ now = 1
    /\ hands = 0
    /\ req = None
    /\ resp = None
    /\ share_in = NoShare
    /\ share_out = NoShare
    /\ shuffle = NoShuffle

\* one execute call, from the host's point of view: the handler runs on the
\* storage, the host commits or discards, and the result goes to the sender
Call(info, msg, env, build, fault) ==
    /\ req = None
    /\ \E before \in {[tables |-> tables, counter |-> counter]} :
       \E outcome \in {execute(before, config, env, info, msg, build, fault)} :
       \E after \in {host_commit(before, outcome)} :
           /\ tables' = after.tables
           /\ counter' = after.counter
           /\ hands' = IF msg.op = "start_game" /\ outcome.result.tag = "Ok"
                       THEN hands + 1 ELSE hands
           /\ resp' = Some(outcome.result)
    /\ req' = Some([sender |-> info.sender, msg |-> msg, env |-> env])
    /\ now' = env.time
    /\ UNCHANGED <<config, share_in, share_out, shuffle>>

\* block times the next call can see
NextTimes == {t \in {now, now + 1} : t <= MaxTime}

StartGame(sender, table_id, hand_ref, players, prev, time, random, build, fault) ==
    /\ hands < MaxHands
    /\ Call([sender |-> sender], StartGameMsg(table_id, hand_ref, players, prev),
            [time |-> time, random |-> random], build, fault)

CommunityCards(sender, table_id, game_state, time, random, build, fault) ==
    Call([sender |-> sender], CommunityCardsMsg(table_id, game_state),
         [time |-> time, random |-> random], build, fault)

Showdown(sender, table_id, game_state, ids, time, random, build, fault) ==
    Call([sender |-> sender], ShowdownMsg(table_id, game_state, ids),
         [time |-> time, random |-> random], build, fault)

\* the sender has its answer; the host takes the next message
Return ==
    /\ req # None
    /\ req' = None
    /\ resp' = None
    /\ UNCHANGED <<tables, counter, config, now, hands, share_in, share_out, shuffle>>

\* tables the model starts hands on; the other table ids never hold a table
StartTableIds == {1}

\* the build of the main specification (the counter stays far from u128::MAX)
CheckedBuild == [overflow_checks |-> TRUE]

\* execute refuses a stranger before it reads the message, so a stranger sends
\* one message of each kind
StrangerSends(sender, fields) ==
    sender = "creator" \/ fields = <<>>

Next ==
    \/ \E sender \in Senders, table_id \in StartTableIds,
          players \in PlayerLists, prev \in PrevShowdownLists,
          time \in NextTimes, random \in Entropies, fault \in Faults :
          /\ StrangerSends(sender, IF players = FirstPlayers(MIN_PLAYERS) /\ fault = "none" /\ random # None THEN prev ELSE <<0>>)
          /\ StartGame(sender, table_id, hands + 1, players, prev, time, random,
                       CheckedBuild, fault)
    \/ \E sender \in Senders, table_id \in TableIds, game_state \in GameStates,
          time \in NextTimes, random \in {Some(1)}, fault \in Faults :
          /\ StrangerSends(sender, IF game_state = "Flop" /\ fault = "none" /\ table_id = 1 THEN <<>> ELSE <<0>>)
          /\ CommunityCards(sender, table_id, game_state, time, random,
                            CheckedBuild, fault)
    \/ \E sender \in Senders, table_id \in TableIds, game_state \in GameStates,
          ids \in ShowdownIdLists, time \in NextTimes, random \in {Some(1)},
          fault \in Faults :
          /\ StrangerSends(sender, IF game_state = "River" /\ fault = "none" /\ table_id = 1 /\ ids = <<1, 2>> THEN <<>> ELSE <<0>>)
          /\ Showdown(sender, table_id, game_state, ids, time, random,
                      CheckedBuild, fault)
    \/ Return

Spec == Init /\ [][Next]_vars

---------------------------------------------------------------------------
(* Dealing on its own: the owner starts hands on one table, for every valid *)
(* player count, with two entropies and without entropy.                    *)

DealEntropies == {Some(1), Some(2), None}
DealPlayerLists == {FirstPlayers(n) : n \in MIN_PLAYERS..MAX_PLAYERS}

NextDeal ==
    \/ \E players \in DealPlayerLists, random \in DealEntropies :
          StartGame("creator", 1, hands + 1, players, <<>>, now, random,
                    CheckedBuild, "none")
    \/ Return

SpecDeal == Init /\ [][NextDeal]_vars

---------------------------------------------------------------------------
(* A stranger at the door: the owner plays one table through a hand, and a  *)
(* sender who is not the owner sends every message with every argument.     *)

NextStranger ==
    \/ StartGame("creator", 1, hands + 1, FirstPlayers(MIN_PLAYERS), <<>>, now,
                 Some(1), CheckedBuild, "none")
    \/ \E game_state \in RevealPhases :
          CommunityCards("creator", 1, game_state, now, Some(1), CheckedBuild,
                         "none")
    \/ Showdown("creator", 1, "River", <<1, 2>>, now, Some(1), CheckedBuild, "none")
    \/ \E table_id \in TableIds, players \in PlayerLists,
          prev \in PrevShowdownLists, random \in Entropies, fault \in Faults :
          StartGame("stranger", table_id, hands + 1, players, prev, now, random,
                    CheckedBuild, fault)
    \/ \E table_id \in TableIds, game_state \in GameStates, fault \in Faults :
          CommunityCards("stranger", table_id, game_state, now, Some(1),
                         CheckedBuild, fault)
    \/ \E table_id \in TableIds, game_state \in GameStates,
          ids \in ShowdownIdLists, fault \in Faults :
          Showdown("stranger", table_id, game_state, ids, now, Some(1),
                   CheckedBuild, fault)
    \/ Return

SpecStranger == Init /\ [][NextStranger]_vars

---------------------------------------------------------------------------
(* Secret sharing on its own: the inputs are drawn in the initial state and *)
(* one step applies additive_secret_sharing to them.                        *)

ShareSecrets == Range(SampleWords)
SharePlayers == MIN_PLAYERS..MAX_PLAYERS
ShareEntropies == {1, 2, 3}
ShareCounters == {Const(U128Limbs, 0), Const(U128Limbs, LimbBase - 3)}

Quiet ==
    /\ config = [owner |-> "creator", contract_address |-> "contract"]
    /\ tables = [t \in TableIds |-> None]
    /\ now = 1
    /\ hands = 0
    /\ req = None
    /\ resp = None

InitShare ==
    /\ Quiet
    /\ counter = Const(U128Limbs, 0)
    /\ share_in \in [secret : ShareSecrets, players : SharePlayers,
                     random : ShareEntropies, counter : ShareCounters]
    /\ share_out = NoShare
    /\ shuffle = NoShuffle

Share ==
    /\ share_out = NoShare
    /\ share_out' = Some(additive_secret_sharing(
                             [time |-> now, random |-> Some(share_in.random)],
                             share_in.players, share_in.secret, share_in.counter,
                             CheckedBuild))
    /\ UNCHANGED <<tables, counter, config, now, hands, req, resp, share_in, shuffle>>

NextShare == Share

SpecShare == InitShare /\ [][NextShare]_vars

---------------------------------------------------------------------------
(* The counter near the top of its range: instantiate reads the counter from *)
(* 16 entropy bytes, so every 128-bit value is a possible first counter.     *)

\* 16 entropy bytes whose little-endian value is u128::MAX - below
BytesBelowMax(below) ==
    AsSeq([i \in 1..RANDOM_SEED_SIZE |-> IF i = 1 THEN 255 - below ELSE 255])

CounterEntropies ==
    { BytesBelowMax(0), BytesBelowMax(8), BytesBelowMax(12), BytesBelowMax(40) }

InitCounter ==
    /\ \E seed \in CounterEntropies :
          LET i == instantiate([time |-> 1, random |-> Some(seed)],
                               [sender |-> "creator"])
          IN  /\ i.tag = "Ok"
              /\ config = i.config
              /\ counter = i.counter
    /\ tables = [t \in TableIds |-> None]
    /\ now = 1
    /\ hands = 0
    /\ req = None
    /\ resp = None
    /\ share_in = NoShare
    /\ share_out = NoShare
    /\ shuffle = NoShuffle

NextCounter ==
    \/ \E players \in ValidPlayerLists \cup {FirstPlayers(1)},
          time \in NextTimes, build \in Builds :
          StartGame("creator", 1, hands + 1, players, <<>>, time, Some(1),
                    build, "none")
    \/ \E game_state \in RevealPhases, time \in NextTimes :
          CommunityCards("creator", 1, game_state, time, Some(1), CheckedBuild,
                         "none")
    \/ Return

SpecCounter == InitCounter /\ [][NextCounter]_vars

---------------------------------------------------------------------------
(* Queries: hands are started and phases revealed by the owner, and anyone  *)
(* queries the community cards with a key.                                  *)

\* keys a query is sent with: every value a phase secret can take
QueryKeys == Range(SampleWords)

\* a query whose answer counts as the reveal of the phase
QueryCommunityCards_recording(table_id, game_state, secret_key) ==
    /\ req = None
    /\ req' = Some([sender |-> "anyone",
                    msg |-> QueryCommunityCardsMsg(table_id, game_state, secret_key),
                    env |-> [time |-> now, random |-> None]])
    /\ \E r \in {query([tables |-> tables, counter |-> counter],
                       QueryCommunityCardsMsg(table_id, game_state, secret_key))} :
          /\ resp' = Some(r)
          /\ tables' = IF r.tag = "Ok"
                       THEN [tables EXCEPT ![table_id] =
                                Some(set_retrieved_at(unwrap(tables[table_id]),
                                                      game_state, now))]
                       ELSE tables
    /\ UNCHANGED <<counter, config, now, hands, share_in, share_out, shuffle>>

\* one query call: storage is read, nothing is written
QueryCommunityCards(table_id, game_state, secret_key) ==
    /\ req = None
    /\ req' = Some([sender |-> "anyone",
                    msg |-> QueryCommunityCardsMsg(table_id, game_state, secret_key),
                    env |-> [time |-> now, random |-> None]])
    /\ resp' = Some(query([tables |-> tables, counter |-> counter],
                          QueryCommunityCardsMsg(table_id, game_state, secret_key)))
    /\ UNCHANGED <<tables, counter, config, now, hands, share_in, share_out, shuffle>>

\* the public keys a permit is presented for: two of every table, one of the
\* full table only, one of no table
PermitKeys ==
    {PublicKeys[1], PublicKeys[MIN_PLAYERS], PublicKeys[MAX_PLAYERS],
     PublicKeys[MAX_PLAYERS + 1]}

\* one permit query, the permit validated for the public key viewer
QueryPlayerPrivateData(table_id, viewer) ==
    /\ req = None
    /\ req' = Some([sender |-> "anyone",
                    msg |-> PlayerPrivateDataMsg(table_id, viewer),
                    env |-> [time |-> now, random |-> None]])
    /\ resp' = Some(query([tables |-> tables, counter |-> counter],
                          PlayerPrivateDataMsg(table_id, viewer)))
    /\ UNCHANGED <<tables, counter, config, now, hands, share_in, share_out, shuffle>>

\* the phase secrets of a showdown query: none, or one of three words
PhaseSecrets ==
    {None, Some(SampleWords[3]), Some(SampleWords[4]), Some(SampleWords[6])}

\* the hand secrets of a showdown query
HandSecretLists ==
    {<<>>, <<SampleWords[7]>>, <<SampleWords[7], SampleWords[6]>>,
     <<SampleWords[3], SampleWords[6]>>}

\* one showdown query
QueryShowdown(table_id, flop_secret, turn_secret, river_secret, players_secrets) ==
    /\ req = None
    /\ req' = Some([sender |-> "anyone",
                    msg |-> QueryShowdownMsg(table_id, flop_secret, turn_secret,
                                             river_secret, players_secrets),
                    env |-> [time |-> now, random |-> None]])
    /\ resp' = Some(query([tables |-> tables, counter |-> counter],
                          QueryShowdownMsg(table_id, flop_secret, turn_secret,
                                           river_secret, players_secrets)))
    /\ UNCHANGED <<tables, counter, config, now, hands, share_in, share_out, shuffle>>

NextQuery ==
    \/ \E players \in ValidPlayerLists :
          StartGame("creator", 1, hands + 1, players, <<>>, now, Some(1),
                    CheckedBuild, "none")
    \/ \E game_state \in RevealPhases :
          CommunityCards("creator", 1, game_state, now, Some(1), CheckedBuild,
                         "none")
    \/ \E table_id \in TableIds, game_state \in GameStates,
          secret_key \in QueryKeys :
          QueryCommunityCards(table_id, game_state, secret_key)
    \/ \E table_id \in TableIds, viewer \in PermitKeys :
          QueryPlayerPrivateData(table_id, viewer)
    \/ \E table_id \in TableIds, flop_secret \in PhaseSecrets,
          turn_secret \in PhaseSecrets, river_secret \in PhaseSecrets,
          players_secrets \in HandSecretLists :
          QueryShowdown(table_id, flop_secret, turn_secret, river_secret,
                        players_secrets)
    \/ Return

SpecQuery == Init /\ [][NextQuery]_vars

---------------------------------------------------------------------------
(* Two tables: the owner starts hands on both table ids (with valid and     *)
(* invalid players, with and without entropy), reveals, shows down, and     *)
(* anyone queries.                                                          *)

TablesPlayerLists == {FirstPlayers(MIN_PLAYERS), FirstPlayers(MIN_PLAYERS - 1)}
ShowdownStates == {"PreFlop", "River"}

NextTables ==
    \/ \E table_id \in TableIds, players \in TablesPlayerLists,
          random \in Entropies, fault \in Faults :
          StartGame("creator", table_id, hands + 1, players, <<>>, now, random,
                    CheckedBuild, fault)
    \/ \E table_id \in TableIds, game_state \in GameStates :
          CommunityCards("creator", table_id, game_state, now, Some(1),
                         CheckedBuild, "none")
    \/ \E table_id \in TableIds, game_state \in ShowdownStates,
          ids \in ShowdownIdLists :
          Showdown("creator", table_id, game_state, ids, now, Some(1),
                   CheckedBuild, "none")
    \/ \E table_id \in TableIds :
          \/ QueryCommunityCards(table_id, "Flop", SampleWords[6])
          \/ QueryPlayerPrivateData(table_id, PublicKeys[1])
          \/ QueryShowdown(table_id, None, None, None, <<SampleWords[7]>>)
    \/ Return

SpecTables == Init /\ [][NextTables]_vars

---------------------------------------------------------------------------
(* shuffle_deck on its own, one pass of its loop per step: the seed and the *)
(* width of usize are drawn in the initial state, and the call is repeated  *)
(* on a fresh canonical deck.                                               *)

\* calls of shuffle_deck in one behaviour
MaxRuns == 2

ShuffleSeeds == Range(SampleWords)

\* usize of the build: the wasm32 contract, and the native test binary
UsizeWidths == {Wasm32UsizeLimbs, Native64UsizeLimbs}

\* the locals of shuffle_deck(&mut Deck::new(), seed) on entry
shuffle_entry(seed, usize_limbs, run, first) ==
    [seed |-> seed, usize_limbs |-> usize_limbs, run |-> run, first |-> first,
     cards |-> Deck_new, deck_len |-> Len(Deck_new)]

InitShuffle ==
    /\ Quiet
    /\ counter = Const(U128Limbs, 0)
    /\ share_in = NoShare
    /\ share_out = NoShare
    /\ \E seed \in ShuffleSeeds, usize_limbs \in UsizeWidths :
           shuffle = shuffle_entry(seed, usize_limbs, 1, None)

\* one pass of the while loop
ShuffleStep ==
    /\ shuffle.deck_len > 1
    /\ shuffle' = [shuffle EXCEPT
                      !.cards = shuffle_step(shuffle.cards, shuffle.deck_len,
                                             shuffle.seed, shuffle.usize_limbs),
                      !.deck_len = shuffle.deck_len - 1]
    /\ UNCHANGED <<tables, counter, config, now, hands, req, resp, share_in, share_out>>

\* the call has returned; the same seed is shuffled again
ShuffleAgain ==
    /\ shuffle.deck_len <= 1
    /\ shuffle.run < MaxRuns
    /\ shuffle' = shuffle_entry(shuffle.seed, shuffle.usize_limbs, shuffle.run + 1,
                                IF shuffle.run = 1 THEN Some(shuffle.cards)
                                ELSE shuffle.first)
    /\ UNCHANGED <<tables, counter, config, now, hands, req, resp, share_in, share_out>>

NextShuffle == ShuffleStep \/ ShuffleAgain

SpecShuffle == InitShuffle /\ [][NextShuffle]_vars

---------------------------------------------------------------------------
(* Properties.  A call step takes the host from idle (req = None) to the    *)
(* state that holds the request and its response; q and r below are the     *)
(* request and the response of the step.                                    *)

CallStep == req = None /\ req' # None

\* the four reveal timestamps of a table
Stamps == RevealPhases \cup {"Showdown"}

retrieved_at(table, stamp) ==
    IF stamp = "Showdown" THEN table.showdown_retrieved_at
    ELSE phase_of(table.community_cards, stamp).retrieved_at

\* an error that only a failing storage write or a failing encoder produces
HostFault(r) ==
    r.tag = "Err" /\ r.error.kind \in {"Std", "SerializationFailed"}

\* the first attribute's payload of an Ok response
Payload(r) == r.response.attributes[1].value

OwnerCalls(q, op, table_id) ==
    /\ q.sender = config.owner
    /\ q.msg.op = op
    /\ q.msg.table_id = table_id

RevealStep(t, p) ==
    LET q == unwrap(req')
        r == unwrap(resp')
        unset == is_some(tables[t]) /\ ~is_some(retrieved_at(unwrap(tables[t]), p))
        set == is_some(tables[t]) /\ is_some(retrieved_at(unwrap(tables[t]), p))
    IN  (OwnerCalls(q, "community_cards", t) /\ q.msg.game_state = p) =>
            /\ unset => (r.tag = "Ok" \/ HostFault(r))
            /\ r.tag = "Ok" =>
                   /\ unset
                   /\ retrieved_at(unwrap(tables'[t]), p) = Some(q.env.time)
            /\ set => /\ r = Err(CardsAlreadyRetrieved)
                      /\ tables' = tables
            /\ ~is_some(tables[t]) => r = Err(TableNotFound(t))

\* C1: a reveal of Flop, Turn or River by the owner succeeds (storage and
\* encoder working) exactly when the table exists and the phase's timestamp is
\* unset, and then sets it to the call's time; with the timestamp set it fails
\* with CardsAlreadyRetrieved and leaves every table as it was.
C1_ExactlyOnceReveal ==
    [][CallStep => \A t \in TableIds, p \in RevealPhases : RevealStep(t, p)]_vars

\* C1 witness: a Turn reveal at time 2 refused because the Turn was revealed at
\* time 1, the timestamp still holding 1
C1_SecondRevealRefused ==
    /\ req # None
    /\ OwnerCalls(unwrap(req), "community_cards", 1)
    /\ unwrap(req).msg.game_state = "Turn"
    /\ unwrap(req).env.time = 2
    /\ unwrap(resp) = Err(CardsAlreadyRetrieved)
    /\ retrieved_at(unwrap(tables[1]), "Turn") = Some(1)

ShowdownStep(t) ==
    LET q == unwrap(req')
        r == unwrap(resp')
        set == is_some(tables[t]) /\ is_some(unwrap(tables[t]).showdown_retrieved_at)
    IN  OwnerCalls(q, "showdown", t) =>
            /\ set => /\ r = Err(CardsAlreadyRetrieved)
                      /\ tables' = tables
            /\ r.tag = "Ok" =>
                   /\ is_some(tables[t])
                   /\ ~set
                   /\ unwrap(tables'[t]).showdown_retrieved_at = Some(q.env.time)

\* C2: a Showdown on a table whose showdown timestamp is set fails with
\* CardsAlreadyRetrieved for every phase and id list and leaves every table as
\* it was; a Showdown that succeeds found the timestamp unset and sets it.
C2_ShowdownOneShot ==
    [][CallStep => \A t \in TableIds : ShowdownStep(t)]_vars

\* C2 witness: a second Showdown refused although it names another phase and
\* ids that are players of no table
C2_SecondShowdownRefused ==
    /\ req # None
    /\ OwnerCalls(unwrap(req), "showdown", 1)
    /\ unwrap(req).msg.game_state = "PreFlop"
    /\ unwrap(req).msg.showdown_player_ids = <<2, 11, 10>>
    /\ unwrap(resp) = Err(CardsAlreadyRetrieved)
    /\ is_some(unwrap(tables[1]).showdown_retrieved_at)

\* the step is a successful StartGame on table t that stores a table with no
\* timestamp set
Replaces(t) ==
    /\ CallStep
    /\ unwrap(req').msg.op = "start_game"
    /\ unwrap(req').msg.table_id = t
    /\ unwrap(resp').tag = "Ok"
    /\ is_some(tables'[t])
    /\ \A s \in Stamps : retrieved_at(unwrap(tables'[t]), s) = None

\* the step is the successful reveal (or showdown) that writes stamp s of t
Writes(t, s) ==
    /\ CallStep
    /\ unwrap(req').msg.op = (IF s = "Showdown" THEN "showdown" ELSE "community_cards")
    /\ unwrap(req').msg.table_id = t
    /\ s # "Showdown" => unwrap(req').msg.game_state = s
    /\ unwrap(resp').tag = "Ok"
    /\ retrieved_at(unwrap(tables'[t]), s) = Some(unwrap(req').env.time)

StampStep(t, s) ==
    /\ is_some(tables[t]) => is_some(tables'[t])
    /\ (is_some(tables[t]) /\ ~Replaces(t)) =>
           LET old == retrieved_at(unwrap(tables[t]), s)
               new == retrieved_at(unwrap(tables'[t]), s)
           IN  /\ is_some(old) => new = old
               /\ (~is_some(old) /\ is_some(new)) => Writes(t, s)

\* C3: in every step and for every table, a timestamp that is present stays
\* present with the same value, and an absent one becomes present only by the
\* successful reveal of its phase (or the successful showdown), unless the step
\* is a successful StartGame on the table, which stores all four unset.
C3_SingleWriteTimestamps ==
    [][\A t \in TableIds, s \in Stamps : StampStep(t, s)]_vars

\* C3 witness: a StartGame has replaced a table whose flop and showdown
\* timestamps were set (the audit record shows them) by one with none set
C3_ReplacedAfterReveals ==
    /\ req # None
    /\ unwrap(req).msg.op = "start_game"
    /\ unwrap(resp).tag = "Ok"
    /\ Len(unwrap(resp).response.attributes) = 2
    /\ is_some(unwrap(resp).response.attributes[2].value.flop_retrieved_at)
    /\ is_some(unwrap(resp).response.attributes[2].value.showdown_retrieved_at)
    /\ \A s \in Stamps : retrieved_at(unwrap(tables[1]), s) = None

\* the community cards an Ok response of a reveal or a showdown publishes
Published(r) ==
    LET cards == Payload(r).community_cards
    IN  IF Payload(r).type = "showdown"
        THEN (IF is_some(cards) THEN Range(unwrap(cards)) ELSE {})
        ELSE Range(cards)

DisclosureStep(t, p) ==
    LET q == unwrap(req')
        r == unwrap(resp')
    IN  (/\ q.msg.op \in {"community_cards", "showdown"}
         /\ q.msg.table_id = t
         /\ r.tag = "Ok"
         /\ Range(phase_cards(unwrap(tables[t]).community_cards, p)) \subseteq Published(r))
        => /\ ~is_some(retrieved_at(unwrap(tables[t]), p))
           /\ retrieved_at(unwrap(tables'[t]), p) = Some(q.env.time)

\* C4: an execute response publishes the cards of a phase only in the step
\* that takes the phase's timestamp from unset to the call's time, so the cards
\* of a phase are published at most once in a hand.
C4_AtMostOnceDisclosure ==
    [][CallStep => \A t \in TableIds, p \in RevealPhases : DisclosureStep(t, p)]_vars

\* the shares of a phase, in player order
player_shares(table, p) ==
    AsSeq([i \in 1..Len(table.players) |->
            CASE p = "Flop" -> table.players[i].flop_secret_share
              [] p = "Turn" -> table.players[i].turn_secret_share
              [] p = "River" -> table.players[i].river_secret_share])

\* C5: in every reachable state, for every stored table and each of flop,
\* turn and river, the wrapping sum of the players' shares of the phase is the
\* phase secret the table stores.
C5_SharesSumToSecret ==
    \A t \in TableIds :
        is_some(tables[t]) =>
            \A p \in RevealPhases :
                SumShares(player_shares(unwrap(tables[t]), p))
                    = phase_of(unwrap(tables[t]).community_cards, p).secret

\* C5 witness: a stored table of 9 players with a river share above the river
\* secret, so that the sum of the shares wraps
C5_NineSharesWrap ==
    /\ is_some(tables[1])
    /\ Len(unwrap(tables[1]).players) = MAX_PLAYERS
    /\ \E i \in 1..MAX_PLAYERS :
           Less(unwrap(tables[1]).community_cards.river.secret,
                unwrap(tables[1]).players[i].river_secret_share)

\* C6: additive_secret_sharing of a 64-bit secret among n players, n from 2 to
\* 9, returns n shares whose wrapping sum is the secret, the last share being
\* the secret minus the wrapping sum of the others.
C6_SharingReconstructs ==
    share_out # NoShare =>
        LET r == unwrap(share_out)
            n == share_in.players
        IN  /\ r.tag = "Ok"
            /\ Len(r.shares) = n
            /\ SumShares(r.shares) = share_in.secret
            /\ r.shares[n] = wrapping_sub(share_in.secret,
                                          SumShares(SubSeq(r.shares, 1, n - 1)))

\* C6 witness: the secret 0 shared among 9 players, with a nonzero last share
C6_ZeroAmongNine ==
    /\ share_out # NoShare
    /\ share_in.players = MAX_PLAYERS
    /\ share_in.secret = U64Zero
    /\ unwrap(share_out).tag = "Ok"
    /\ unwrap(share_out).shares[MAX_PLAYERS] # U64Zero

ValidCount(players) == Len(players) \in MIN_PLAYERS..MAX_PLAYERS

DistinctKeys(players) ==
    \A i, j \in 1..Len(players) :
        players[i].public_key = players[j].public_key => i = j

\* every id of the list is a player of the table stored at t, if one is stored
PrevPlayersFound(t, ids) ==
    is_some(tables[t]) =>
        \A k \in 1..Len(ids) :
            \E i \in 1..Len(unwrap(tables[t]).players) :
                unwrap(tables[t]).players[i].player_id = ids[k]

ValidationStep(t) ==
    LET q == unwrap(req')
        r == unwrap(resp')
        players == q.msg.players
    IN  OwnerCalls(q, "start_game", t) =>
            /\ ~ValidCount(players) =>
                   /\ r = Err(InvalidPlayerCount(Len(players)))
                   /\ tables' = tables /\ counter' = counter
            /\ (ValidCount(players) /\ ~DistinctKeys(players)) =>
                   /\ r = Err(DuplicatePublicKeys)
                   /\ tables' = tables /\ counter' = counter
            /\ (ValidCount(players) /\ DistinctKeys(players)) =>
                   /\ r.tag = "Err" =>
                          r.error.kind \notin {"InvalidPlayerCount", "DuplicatePublicKeys"}
                   /\ (/\ PrevPlayersFound(t, q.msg.prev_hand_showdown_players)
                       /\ is_some(q.env.random))
                      => (r.tag = "Ok" \/ HostFault(r))

\* C7: a StartGame of the owner with fewer than 2 or more than 9 players fails
\* with InvalidPlayerCount carrying the count, one with a valid count and two
\* equal public keys fails with DuplicatePublicKeys, both leaving every table
\* and the counter as they were; one with 2 to 9 players of distinct keys
\* passes validation and (entropy present, previous players found, storage and
\* encoder working) succeeds.
C7_StartGameValidation ==
    [][CallStep => \A t \in TableIds : ValidationStep(t)]_vars

\* C7 witness: 10 players refused on a table id that holds a table
C7_TenPlayersRefused ==
    /\ req # None
    /\ OwnerCalls(unwrap(req), "start_game", 1)
    /\ unwrap(resp) = Err(InvalidPlayerCount(MAX_PLAYERS + 1))
    /\ is_some(tables[1])

AtomicStep(t) ==
    LET q == unwrap(req')
        r == unwrap(resp')
        stored == tables'[t] # tables[t]
        advanced == counter' # counter
    IN  (q.msg.op = "start_game" /\ q.msg.table_id = t) =>
            /\ stored <=> advanced
            /\ stored <=> r.tag = "Ok"
            /\ stored => /\ is_some(tables'[t])
                         /\ unwrap(tables'[t]).hand_ref = q.msg.hand_ref
                         /\ Less(counter, counter')

\* C8: after every StartGame, whatever its outcome, either the new table is
\* stored and the counter is advanced, or the tables and the counter are both
\* as they were before the call.
C8_TableAndCounterTogether ==
    [][CallStep => \A t \in TableIds : AtomicStep(t)]_vars

\* C8 witness: a StartGame whose counter write failed after its table write
C8_CounterWriteFailed ==
    /\ req # None
    /\ unwrap(req).msg.op = "start_game"
    /\ unwrap(resp) = Err(StdError("counter not saved"))

\* C9: in every step the persisted counter is at least what it was.
C9_CounterNeverDecreases ==
    [][~Less(counter', counter)]_vars

ReplaceStep(t) ==
    LET q == unwrap(req')
        r == unwrap(resp')
        table == unwrap(tables'[t])
    IN  (q.msg.op = "start_game" /\ q.msg.table_id = t /\ r.tag = "Ok") =>
            /\ is_some(tables'[t])
            /\ table.hand_ref = q.msg.hand_ref
            /\ Len(table.players) = Len(q.msg.players)
            /\ \A i \in 1..Len(q.msg.players) :
                   /\ table.players[i].username = q.msg.players[i].username
                   /\ table.players[i].player_id = q.msg.players[i].player_id
                   /\ table.players[i].public_key = q.msg.players[i].public_key
            /\ \A s \in Stamps : retrieved_at(table, s) = None
            /\ is_some(tables[t]) => table.hand_ref # unwrap(tables[t]).hand_ref

\* C10: after a successful StartGame the table at the table id has the hand_ref
\* of the call, the players of the call in input order and no others, and all
\* four reveal timestamps unset, whatever table was stored there before.
C10_StartGameReplaces ==
    [][CallStep => \A t \in TableIds : ReplaceStep(t)]_vars

\* C10 witness: a table of 2 players has replaced a table of 9 players on
\* which the river had been revealed and the showdown retrieved
C10_TwoReplaceNine ==
    /\ req # None
    /\ unwrap(req).msg.op = "start_game"
    /\ unwrap(resp).tag = "Ok"
    /\ Len(unwrap(resp).response.attributes) = 2
    /\ Len(unwrap(resp).response.attributes[2].value.showdown_players) = 2
    /\ unwrap(resp).response.attributes[2].value.showdown_players[2].username = "player3"
    /\ is_some(unwrap(resp).response.attributes[2].value.river_retrieved_at)
    /\ is_some(unwrap(resp).response.attributes[2].value.showdown_retrieved_at)
    /\ Len(unwrap(tables[1]).players) = MIN_PLAYERS

MissingOutgoingStep(t) ==
    LET q == unwrap(req')
        r == unwrap(resp')
    IN  (/\ OwnerCalls(q, "start_game", t)
         /\ ValidCount(q.msg.players) /\ DistinctKeys(q.msg.players)
         /\ is_some(tables[t])
         /\ ~PrevPlayersFound(t, q.msg.prev_hand_showdown_players))
        => /\ r.tag = "Err"
           /\ tables' = tables
           /\ counter' = counter

\* C11: a StartGame of the owner (players valid) on a table id that holds a
\* table, naming a previous showdown player who is not a player of that table,
\* returns a typed error value, never Ok and never an abort, and leaves every
\* table and the counter as they were.
C11_MissingOutgoingPlayerTypedError ==
    [][CallStep => \A t \in TableIds : MissingOutgoingStep(t)]_vars

\* the attributes of an Ok response with the given key
AttributesOf(r, key) ==
    {i \in 1..Len(r.response.attributes) : r.response.attributes[i].key = key}

\* the strings of a sequence of cards
CardStrings(cards) == AsSeq([k \in 1..Len(cards) |-> Card_to_string(cards[k])])

AuditStep(t) ==
    LET q == unwrap(req')
        r == unwrap(resp')
        ids == q.msg.prev_hand_showdown_players
        logs == AttributesOf(r, "previous_hand_log")
    IN  (q.msg.op = "start_game" /\ q.msg.table_id = t /\ r.tag = "Ok") =>
            /\ Cardinality(logs) = (IF is_some(tables[t]) THEN 1 ELSE 0)
            /\ \A a \in logs :
                   LET log == r.response.attributes[a].value
                       old == unwrap(tables[t])
                   IN  /\ log.flop_retrieved_at = retrieved_at(old, "Flop")
                       /\ log.turn_retrieved_at = retrieved_at(old, "Turn")
                       /\ log.river_retrieved_at = retrieved_at(old, "River")
                       /\ log.showdown_retrieved_at = retrieved_at(old, "Showdown")
                       /\ Len(log.community_cards) = 5
                       /\ log.community_cards =
                              CardStrings(phase_cards(old.community_cards, "Flop")
                                          \o phase_cards(old.community_cards, "Turn")
                                          \o phase_cards(old.community_cards, "River"))
                       /\ Len(log.showdown_players) = Len(ids)
                       /\ \A k \in 1..Len(ids) :
                              \E i \in 1..Len(old.players) :
                                  /\ old.players[i].player_id = ids[k]
                                  /\ log.showdown_players[k].username
                                         = old.players[i].username
                                  /\ Len(old.players[i].hand) = 2
                                  /\ log.showdown_players[k].hand
                                         = CardStrings(old.players[i].hand)

\* C12: a successful StartGame answers with a previous_hand_log attribute
\* exactly when the table id held a table before the call; the record has the
\* four timestamps of that table as they were before the call, the strings of
\* its flop, turn and river cards in that order, and for each supplied id, in
\* order, the username and the two hole cards of that player of that table.
C12_AuditRecordOfOutgoingHand ==
    [][CallStep => \A t \in TableIds : AuditStep(t)]_vars

\* C12 witness: an audit record for the ids 2, 1 of a table whose flop was
\* revealed and whose turn was not
C12_AuditAfterFlop ==
    /\ req # None
    /\ unwrap(req).msg.op = "start_game"
    /\ unwrap(req).msg.prev_hand_showdown_players = <<2, 1>>
    /\ unwrap(resp).tag = "Ok"
    /\ \E a \in AttributesOf(unwrap(resp), "previous_hand_log") :
           LET log == unwrap(resp).response.attributes[a].value
           IN  /\ is_some(log.flop_retrieved_at)
               /\ ~is_some(log.turn_retrieved_at)
               /\ log.showdown_players[1].username = "player2"
               /\ log.showdown_players[2].username = "player1"

\* the phases whose cards a showdown at game_state still has to publish
RemainingPhases(game_state) ==
    CASE game_state = "PreFlop" -> <<"Flop", "Turn", "River">>
      [] game_state = "Flop" -> <<"Turn", "River">>
      [] game_state = "Turn" -> <<"River">>
      [] game_state = "River" -> <<>>

RECURSIVE StoredCards(_, _)
StoredCards(community_cards, phases) ==
    IF phases = <<>> THEN <<>>
    ELSE phase_cards(community_cards, Head(phases))
             \o StoredCards(community_cards, Tail(phases))

AllInStep(t) ==
    LET q == unwrap(req')
        r == unwrap(resp')
        stored == unwrap(tables[t]).community_cards
        cards == Payload(r).community_cards
    IN  (q.msg.op = "showdown" /\ q.msg.table_id = t /\ r.tag = "Ok") =>
            /\ q.msg.game_state = "River" => cards = None
            /\ q.msg.game_state # "River" =>
                   /\ is_some(cards)
                   /\ unwrap(cards) = StoredCards(stored, RemainingPhases(q.msg.game_state))
                   /\ Len(unwrap(cards)) =
                          (CASE q.msg.game_state = "PreFlop" -> 5
                             [] q.msg.game_state = "Flop" -> 2
                             [] q.msg.game_state = "Turn" -> 1)

\* C13: a successful Showdown returns, whatever has been revealed before, the
\* stored flop, turn and river cards (5, in that order) for PreFlop, the stored
\* turn and river cards for Flop, the stored river card for Turn, and no
\* community cards for River.
C13_AllInCardsByPhase ==
    [][CallStep => \A t \in TableIds : AllInStep(t)]_vars

\* C13 witness: a Showdown at PreFlop returning five cards on a table whose
\* flop and river had been revealed
C13_PreFlopAfterReveals ==
    /\ req # None
    /\ unwrap(req).msg.op = "showdown"
    /\ unwrap(req).msg.game_state = "PreFlop"
    /\ unwrap(resp).tag = "Ok"
    /\ Len(unwrap(Payload(unwrap(resp)).community_cards)) = 5
    /\ is_some(retrieved_at(unwrap(tables[1]), "Flop"))
    /\ is_some(retrieved_at(unwrap(tables[1]), "River"))

\* positions of the ids that are ids of no player of the table
MissingIds(table, ids) ==
    {k \in 1..Len(ids) :
        \A i \in 1..Len(table.players) : table.players[i].player_id # ids[k]}

FailFastStep(t) ==
    LET q == unwrap(req')
        r == unwrap(resp')
        ids == q.msg.showdown_player_ids
        missing == MissingIds(unwrap(tables[t]), ids)
    IN  (/\ OwnerCalls(q, "showdown", t)
         /\ is_some(tables[t])
         /\ ~is_some(unwrap(tables[t]).showdown_retrieved_at))
        => /\ missing # {} =>
                  /\ r.tag = "Err"
                  /\ r.error.kind = "PlayerNotFound"
                  /\ r.error.table_id = t
                  /\ \E k \in missing :
                         /\ \A m \in missing : k <= m
                         /\ r.error.player = UuidText[ids[k]]
                  /\ tables' = tables
                  /\ ~is_some(unwrap(tables'[t]).showdown_retrieved_at)
           /\ missing = {} => (r.tag = "Ok" \/ HostFault(r))

\* C14: a Showdown of the owner on a stored table whose showdown timestamp is
\* unset, naming an id that is no player of the table, fails with
\* PlayerNotFound carrying the table id and the text of the first such id in
\* request order, and leaves every table as it was, the showdown timestamp
\* unset; with every id a player of the table it succeeds (storage and encoder
\* working).
C14_ShowdownFailFast ==
    [][CallStep => \A t \in TableIds : FailFastStep(t)]_vars

\* C14 witness: of the ids 2, 11, 10 the second is reported, the showdown
\* timestamp is unset and the flop timestamp is still set
C14_SecondOfThreeReported ==
    /\ req # None
    /\ OwnerCalls(unwrap(req), "showdown", 1)
    /\ unwrap(req).msg.showdown_player_ids = <<2, 11, 10>>
    /\ unwrap(resp).tag = "Err"
    /\ unwrap(resp).error.kind = "PlayerNotFound"
    /\ unwrap(resp).error.player = "aaaaaaaa-bbbb-cccc-dddd-eeeeeeeeeeee"
    /\ ~is_some(unwrap(tables[1]).showdown_retrieved_at)
    /\ is_some(retrieved_at(unwrap(tables[1]), "Flop"))

NoTableStep(t) ==
    LET q == unwrap(req')
        r == unwrap(resp')
    IN  (/\ q.sender = config.owner
         /\ q.msg.op \in {"community_cards", "showdown"}
         /\ q.msg.table_id = t
         /\ ~is_some(tables[t]))
        => /\ r.tag = "Err"
           /\ r.error = [kind |-> "TableNotFound", table_id |-> t]
           /\ tables' = tables
           /\ counter' = counter

\* C15: a reveal or a Showdown of the owner on a table id that holds no table
\* fails with TableNotFound carrying the table id, for every phase and id
\* list, and leaves every table (none is created) and the counter as they were.
C15_TableNotFound ==
    [][CallStep => \A t \in TableIds : NoTableStep(t)]_vars

\* C15 witness: a Showdown at PreFlop refused on table id 2 while table id 1
\* holds a table
C15_ShowdownOnEmptyId ==
    /\ req # None
    /\ OwnerCalls(unwrap(req), "showdown", 2)
    /\ unwrap(req).msg.game_state = "PreFlop"
    /\ unwrap(resp) = Err(TableNotFound(2))
    /\ is_some(tables[1])
    /\ ~is_some(tables[2])

PreFlopRevealStep(t) ==
    LET q == unwrap(req')
        r == unwrap(resp')
    IN  (/\ OwnerCalls(q, "community_cards", t)
         /\ q.msg.game_state = "PreFlop"
         /\ is_some(tables[t]))
        => /\ r.tag = "Err"
           /\ r.error = [kind |-> "GameStateError",
                         method |-> "distribute_community_cards",
                         table_id |-> t,
                         game_state |-> Some("PreFlop")]
           /\ tables' = tables

\* C16: a reveal of the owner with phase PreFlop on a stored table fails with
\* GameStateError carrying the table id and the phase PreFlop, whichever of
\* the table's timestamps are set, and leaves every table as it was.
C16_PreFlopRevealRejected ==
    [][CallStep => \A t \in TableIds : PreFlopRevealStep(t)]_vars

\* C16 witness: a PreFlop reveal refused on a table with the flop revealed and
\* the showdown retrieved
C16_PreFlopAfterShowdown ==
    /\ req # None
    /\ OwnerCalls(unwrap(req), "community_cards", 1)
    /\ unwrap(req).msg.game_state = "PreFlop"
    /\ unwrap(resp).tag = "Err"
    /\ unwrap(resp).error.kind = "GameStateError"
    /\ is_some(retrieved_at(unwrap(tables[1]), "Flop"))
    /\ is_some(retrieved_at(unwrap(tables[1]), "Showdown"))

\* the deck holds each card of the canonical deck exactly once
IsPermutation(cards) ==
    /\ Len(cards) = Len(Deck_new)
    /\ Range(cards) = Range(Deck_new)
    /\ \A i, j \in 1..Len(cards) : cards[i] = cards[j] => i = j

\* C17: for every seed, the deck of shuffle_deck after every pass of its loop,
\* and so the deck it returns, holds the 52 cards of the canonical deck, each
\* exactly once.
C17_ShuffleIsPermutation ==
    /\ IsPermutation(shuffle.cards)
    /\ shuffle.deck_len <= 1 =>
           shuffle.cards = shuffle_deck(Deck_new, shuffle.seed, shuffle.usize_limbs)

\* C17 witness: a finished shuffle that has moved the first and the last card
C17_ShuffledDeck ==
    /\ shuffle.deck_len <= 1
    /\ shuffle.cards[1] # Deck_new[1]
    /\ shuffle.cards[Len(Deck_new)] # Deck_new[Len(Deck_new)]
    /\ Cardinality(Range(shuffle.cards)) = 4 * 13

Widen(a, n) == AsSeq([i \in 1..n |-> IF i <= Len(a) THEN a[i] ELSE 0])

\* limbs for counts of 64-bit candidates
CountLimbs == U64Limbs + 2

\* a * b, for b given by its little-endian bytes from byte k on
RECURSIVE MulBytes(_, _, _)
MulBytes(a, bytes, k) ==
    IF k > Len(bytes) THEN Const(Len(a), 0)
    ELSE wrapping_add(MulSmall(a, bytes[k]),
                      MulSmall(MulBytes(a, bytes, k + 1), 256))

\* how many x with 0 <= x < n have x % m = j (j < m): ceil((n - j) / m)
CountBelow(n, m, j) ==
    DivSmall(wrapping_add(Widen(n, CountLimbs), Const(CountLimbs, m - 1 - j)), m)

\* how many candidates c with 0 <= c < bound have (c as usize) % m = j, for a
\* usize of usize_limbs limbs: c = high * 2^usize + low, the index is low % m
IndexCount(bound, m, j, usize_limbs) ==
    LET low == SubSeq(bound, 1, usize_limbs)
        high == SubSeq(bound, usize_limbs + 1, Len(bound))
        usize_range == AsSeq([i \in 1..(usize_limbs + 1) |->
                                 IF i = usize_limbs + 1 THEN 1 ELSE 0])
    IN  wrapping_add(MulBytes(CountBelow(usize_range, m, j), to_le_bytes(high), 1),
                     CountBelow(low, m, j))

\* C18: at every pass of the loop, with m = deck_len cards left (m from 52
\* down to 2), the threshold is a multiple of m and every index 0..m-1 is the
\* index of the same number of the candidates below the threshold.
C18_UnbiasedIndexDraw ==
    shuffle.deck_len > 1 =>
        /\ ModSmall(threshold(shuffle.deck_len), shuffle.deck_len) = 0
        /\ \A j \in 0..(shuffle.deck_len - 1) :
               IndexCount(threshold(shuffle.deck_len), shuffle.deck_len, j,
                          shuffle.usize_limbs)
                 = IndexCount(threshold(shuffle.deck_len), shuffle.deck_len, 0,
                              shuffle.usize_limbs)

QueryStep(t) ==
    LET q == unwrap(req')
        r == unwrap(resp')
        phase == q.msg.game_state
        answered == /\ is_some(tables[t])
                    /\ phase \in RevealPhases
                    /\ q.msg.secret_key
                         = phase_of(unwrap(tables[t]).community_cards, phase).secret
    IN  (q.msg.op = "query_community_cards" /\ q.msg.table_id = t) =>
            /\ r.tag = "Ok" <=> answered
            /\ r.tag = "Ok" =>
                   /\ r.binary.json.table_id = t
                   /\ r.binary.json.hand_ref = unwrap(tables[t]).hand_ref
                   /\ r.binary.json.game_state = phase
                   /\ r.binary.json.community_cards
                          = phase_cards(unwrap(tables[t]).community_cards, phase)
                   /\ Len(r.binary.json.community_cards)
                          = (IF phase = "Flop" THEN 3 ELSE 1)
            /\ (is_some(tables[t]) /\ phase \in RevealPhases /\ ~answered) =>
                   r = Err([kind |-> "Std", msg |-> "Invalid viewing key"])
            /\ r.tag \in {"Ok", "Err"}
            /\ tables' = tables /\ counter' = counter

\* C20: a community cards query returns the cards of the phase (3 for Flop, 1
\* for Turn, 1 for River) exactly when the table exists, the phase is Flop,
\* Turn or River and the key equals the stored secret of the phase; on a
\* stored table and such a phase every other key fails with the invalid key
\* error; whether the phase has been revealed plays no part, and nothing is
\* written.
C20_QueryByPhaseSecret ==
    [][CallStep => \A t \in TableIds : QueryStep(t)]_vars

\* C20 witness: the flop returned to a query with the flop secret after the
\* flop was revealed
C20_FlopQueriedAfterReveal ==
    /\ req # None
    /\ unwrap(req).msg.op = "query_community_cards"
    /\ unwrap(req).msg.game_state = "Flop"
    /\ unwrap(resp).tag = "Ok"
    /\ Len(unwrap(resp).binary.json.community_cards) = 3
    /\ is_some(retrieved_at(unwrap(tables[1]), "Flop"))

\* str::parse::<u64> on a sequence of decimal digits: the value, or none on
\* overflow
RECURSIVE parse_u64(_)
parse_u64(digits) ==
    IF Len(digits) = 0 THEN Some(U64Zero)
    ELSE LET head == parse_u64(SubSeq(digits, 1, Len(digits) - 1))
             last == Const(U64Limbs, digits[Len(digits)])
         IN  IF ~is_some(head) THEN None
             ELSE IF MulCarry(unwrap(head), 10, U64Limbs) # 0 THEN None
             ELSE IF AddOverflows(MulSmall(unwrap(head), 10), last) THEN None
             ELSE Some(wrapping_add(MulSmall(unwrap(head), 10), last))

PrivateDataStep(t) ==
    LET q == unwrap(req')
        r == unwrap(resp')
        k == q.msg.viewer
        players == unwrap(tables[t]).players
        owners == IF is_some(tables[t])
                  THEN {i \in 1..Len(players) : players[i].public_key = k}
                  ELSE {}
        data == r.binary.json.serialized
    IN  (q.msg.op = "query_with_permit" /\ q.msg.table_id = t) =>
            /\ r.tag = "Ok" <=> owners # {}
            /\ r.tag = "Ok" =>
                   \E i \in owners :
                       /\ data.table_id = t
                       /\ data.hand_ref = unwrap(tables[t]).hand_ref
                       /\ data.hand = players[i].hand
                       /\ Len(data.hand) = 2
                       /\ parse_u64(data.hand_secret) = Some(players[i].hand_secret)
                       /\ parse_u64(data.flop_secret_share)
                              = Some(players[i].flop_secret_share)
                       /\ parse_u64(data.turn_secret_share)
                              = Some(players[i].turn_secret_share)
                       /\ parse_u64(data.river_secret_share)
                              = Some(players[i].river_secret_share)
                       /\ \A j \in 1..Len(players) :
                              j # i => data.hand # players[j].hand
            /\ ~is_some(tables[t]) => r = Err([kind |-> "Std", msg |-> "No table found"])
            /\ (is_some(tables[t]) /\ owners = {}) =>
                   r = Err([kind |-> "Std", msg |-> "No player found"])
            /\ tables' = tables /\ counter' = counter

\* C21: a private data query for the public key k on table t succeeds exactly
\* when a table is stored at t and one of its players has key k; it then
\* returns that player's 2 hole cards, and the hand secret and the flop, turn
\* and river shares as decimal strings that parse back to the stored 64-bit
\* values, and no other player's hand; it fails with "No table found" without
\* a table and with "No player found" without such a player.
C21_PrivateDataOfKeyOwner ==
    [][CallStep => \A t \in TableIds : PrivateDataStep(t)]_vars

\* C21 witness: the second player of a started table is answered with a hand
\* secret of more than one digit
C21_SecondPlayerAnswered ==
    /\ req # None
    /\ unwrap(req).msg.op = "query_with_permit"
    /\ unwrap(req).msg.viewer = PublicKeys[MIN_PLAYERS]
    /\ unwrap(resp).tag = "Ok"
    /\ Len(unwrap(resp).binary.json.serialized.hand_secret) > 1
    /\ unwrap(resp).binary.json.serialized.hand = unwrap(tables[1]).players[2].hand

SecretOf(msg, phase) ==
    CASE phase = "Flop" -> msg.flop_secret
      [] phase = "Turn" -> msg.turn_secret
      [] phase = "River" -> msg.river_secret

SuppliedCards(msg, community_cards) ==
    (IF msg.flop_secret # None THEN community_cards.flop.cards ELSE <<>>)
    \o (IF msg.turn_secret # None THEN <<community_cards.turn.card>> ELSE <<>>)
    \o (IF msg.river_secret # None THEN <<community_cards.river.card>> ELSE <<>>)

ShowdownQueryStep(t) ==
    LET q == unwrap(req')
        r == unwrap(resp')
        table == unwrap(tables[t])
        secrets == q.msg.players_secrets
        holders(k) == {i \in 1..Len(table.players) :
                          table.players[i].hand_secret = secrets[k]}
        first(k) == table.players[CHOOSE i \in holders(k) :
                                     \A j \in holders(k) : i <= j]
        phases_right == \A phase \in RevealPhases :
                            \/ SecretOf(q.msg, phase) = None
                            \/ SecretOf(q.msg, phase)
                                 = Some(phase_of(table.community_cards, phase).secret)
        hands_right == \A k \in 1..Len(secrets) : holders(k) # {}
        answer == r.binary.json
    IN  (q.msg.op = "query_showdown" /\ q.msg.table_id = t) =>
            /\ r.tag = "Ok" <=> (is_some(tables[t]) /\ phases_right /\ hands_right)
            /\ r.tag = "Ok" =>
                   /\ answer.table_id = t
                   /\ answer.hand_ref = table.hand_ref
                   /\ answer.community_cards
                          = Some(SuppliedCards(q.msg, table.community_cards))
                   /\ Len(answer.players_cards) = Len(secrets)
                   /\ \A k \in 1..Len(secrets) :
                          answer.players_cards[k]
                              = <<first(k).player_id, first(k).hand>>
            /\ ~is_some(tables[t]) => r = Err([kind |-> "Std", msg |-> "No table found"])
            /\ (is_some(tables[t]) /\ ~phases_right) =>
                   r = Err([kind |-> "Std", msg |-> "Invalid secret key"])
            /\ (is_some(tables[t]) /\ phases_right /\ ~hands_right) =>
                   r = Err([kind |-> "Std", msg |-> "Player not found"])
            /\ tables' = tables /\ counter' = counter

\* C22: a showdown query on a stored table fails when a supplied phase secret
\* differs from the stored secret of its phase ("Invalid secret key") or a
\* supplied hand secret is the hand secret of no player ("Player not found");
\* otherwise it returns the cards of the phases whose secret was supplied, in
\* flop, turn, river order, and for each supplied hand secret, in order, the
\* id and hand of the first player whose hand secret equals it; nothing is
\* written.
C22_ShowdownBySecrets ==
    [][CallStep => \A t \in TableIds : ShowdownQueryStep(t)]_vars

\* C22 witness: the three phase secrets and two hand secrets all match, and
\* the five community cards and two hands of different players come back
C22_AllSecretsAnswered ==
    /\ req # None
    /\ unwrap(req).msg.op = "query_showdown"
    /\ unwrap(req).msg.flop_secret # None
    /\ unwrap(req).msg.turn_secret # None
    /\ unwrap(req).msg.river_secret # None
    /\ unwrap(resp).tag = "Ok"
    /\ Len(unwrap(unwrap(resp).binary.json.community_cards)) = 5
    /\ Len(unwrap(resp).binary.json.players_cards) = 2
    /\ unwrap(resp).binary.json.players_cards[1][1]
         # unwrap(resp).binary.json.players_cards[2][1]

\* counters another run of the same call may start from
OtherCounters ==
    {counter, wrapping_add(counter, U128One), Const(U128Limbs, 0),
     Const(U128Limbs, LimbBase - 3)}

\* the same call on the same tables, with another entropy and counter
OtherRun(q, random, cnt) ==
    execute([tables |-> tables, counter |-> cnt], config,
            [time |-> q.env.time, random |-> random], [sender |-> q.sender],
            q.msg, CheckedBuild, "none")

PublicResultStep ==
    LET q == unwrap(req')
        r == unwrap(resp')
        attributes == r.response.attributes
    IN  (q.msg.op = "start_game" /\ r.tag = "Ok") =>
            /\ attributes[1]
                 = [key |-> "response",
                    value |-> [type |-> "start_game",
                               table_id |-> q.msg.table_id,
                               hand_ref |-> q.msg.hand_ref,
                               players |-> [i \in 1..Len(q.msg.players) |->
                                               q.msg.players[i].username]]]
            /\ Len(attributes) = (IF is_some(tables[q.msg.table_id]) THEN 2 ELSE 1)
            /\ \A a \in 2..Len(attributes) : attributes[a].key = "previous_hand_log"
            /\ DOMAIN r = {"tag", "response"}
            /\ DOMAIN r.response = {"attributes"}
            /\ \A random \in DealEntropies \ {None}, cnt \in OtherCounters :
                   OtherRun(q, random, cnt).result = r

\* C23: the result of a successful StartGame is one "response" attribute with
\* the table id, the hand_ref and the usernames in input order, followed only
\* by the log of the hand it replaces; the same call run with any other
\* entropy and counter returns the identical result.
C23_PublicResultOnly ==
    [][CallStep => PublicResultStep]_vars

\* C23 witness: a second hand of 9 players started on the table, answered with
\* the response and the log of the first hand
C23_SecondHandAnswered ==
    /\ req # None
    /\ unwrap(req).msg.op = "start_game"
    /\ Len(unwrap(req).msg.players) = MAX_PLAYERS
    /\ unwrap(resp).tag = "Ok"
    /\ Len(unwrap(resp).response.attributes) = 2
    /\ unwrap(tables[1]).hand_ref = 2

StrangerStep ==
    LET q == unwrap(req')
        r == unwrap(resp')
    IN  q.sender # config.owner =>
            /\ r = Err([kind |-> "Unauthorized"])
            /\ tables' = tables
            /\ counter' = counter

\* C24: an execute message of a sender who is not the configured owner fails
\* with Unauthorized, whatever the message, its arguments and the state of the
\* tables, and leaves every table and the counter unchanged.
C24_UnauthorizedFirst ==
    [][CallStep => StrangerStep]_vars

\* C24 witness: a stranger is refused the reveal of a flop that the owner
\* could still reveal
C24_StrangerRefusedOpenFlop ==
    /\ req # None
    /\ unwrap(req).sender = "stranger"
    /\ unwrap(req).msg.op = "community_cards"
    /\ unwrap(req).msg.game_state = "Flop"
    /\ unwrap(req).msg.table_id = 1
    /\ is_some(tables[1])
    /\ ~is_some(retrieved_at(unwrap(tables[1]), "Flop"))
    /\ unwrap(resp) = Err(Unauthorized)

IsolationStep ==
    LET q == unwrap(req')
    IN  \A other \in TableIds :
            other # q.msg.table_id => tables'[other] = tables[other]

\* C25: an operation invoked with a table id, whether it succeeds or fails,
\* leaves the table stored at every other id as it was, reveal timestamps
\* included.
C25_TableIsolation ==
    [][CallStep => IsolationStep]_vars

\* C25 witness: a hand was started on table 1 while table 2 holds a table with
\* its flop revealed
C25_StartBesideRevealedTable ==
    /\ req # None
    /\ unwrap(req).msg.op = "start_game"
    /\ unwrap(req).msg.table_id = 1
    /\ unwrap(resp).tag = "Ok"
    /\ is_some(tables[2])
    /\ is_some(retrieved_at(unwrap(tables[2]), "Flop"))

CounterStep ==
    counter' # counter =>
        /\ CallStep
        /\ unwrap(req').msg.op = "start_game"
        /\ unwrap(resp').tag = "Ok"

\* C26: the stored counter changes only in a step that is a successful
\* StartGame; reveals, showdowns, queries and every failed operation, a
\* failed StartGame included, leave it as it was.
C26_CounterOnlyByStartGame ==
    [][CounterStep]_vars

\* C26 witness: after a hand was dealt, a StartGame on the stored table failed
\* and a showdown succeeded, the counter being what the deal left
C26_FailedStartAfterDeal ==
    /\ req # None
    /\ unwrap(req).msg.op = "start_game"
    /\ unwrap(resp).tag # "Ok"
    /\ is_some(tables[unwrap(req).msg.table_id])
    /\ is_some(retrieved_at(unwrap(tables[unwrap(req).msg.table_id]), "Showdown"))
    /\ Len(unwrap(req).msg.players) = MIN_PLAYERS

IndependentRevealStep(t, p) ==
    LET q == unwrap(req')
        r == unwrap(resp')
        old == unwrap(tables[t])
        new == unwrap(tables'[t])
    IN  (/\ OwnerCalls(q, "community_cards", t)
         /\ q.msg.game_state = p
         /\ is_some(tables[t])
         /\ ~is_some(retrieved_at(old, p)))
        => /\ r.tag = "Ok"
           /\ retrieved_at(new, p) = Some(q.env.time)
           /\ \A other \in Stamps \ {p} :
                  retrieved_at(new, other) = retrieved_at(old, other)

\* C27: on a stored table the owner's reveal of a phase whose timestamp is
\* unset succeeds, whatever the timestamps of the other two phases are, sets
\* that timestamp and leaves the other timestamps as they were; so a later
\* phase can be revealed before an earlier one.
C27_IndependentReveals ==
    [][CallStep => \A t \in TableIds, p \in RevealPhases :
                       IndependentRevealStep(t, p)]_vars

\* C27 witness: before any showdown the turn is revealed after the river, the
\* flop still hidden
C27_TurnAfterRiverBeforeFlop ==
    /\ req # None
    /\ unwrap(req).msg.op = "community_cards"
    /\ unwrap(req).msg.game_state = "Turn"
    /\ unwrap(resp).tag = "Ok"
    /\ LET table == unwrap(tables[unwrap(req).msg.table_id])
       IN  /\ ~is_some(retrieved_at(table, "Flop"))
           /\ is_some(retrieved_at(table, "Turn"))
           /\ is_some(retrieved_at(table, "River"))
           /\ ~is_some(retrieved_at(table, "Showdown"))

TerminalStep(t) ==
    LET q == unwrap(req')
    IN  (/\ is_some(tables[t])
         /\ is_some(retrieved_at(unwrap(tables[t]), "Showdown"))
         /\ ~(q.msg.op = "start_game" /\ q.msg.table_id = t))
        => tables'[t] = tables[t]

\* C28: once the showdown timestamp of a table is set, no operation other
\* than a StartGame on its id changes the table; no reveal timestamp of it
\* goes from unset to set.
C28_ShowdownTerminal ==
    [][CallStep => \A t \in TableIds : TerminalStep(t)]_vars

NoEntropyStep ==
    LET q == unwrap(req')
        r == unwrap(resp')
        drawn == generate_random_number(q.env, counter, CheckedBuild)
    IN  (q.msg.op = "start_game" /\ q.env.random = None) =>
            /\ drawn.tag = "Err"
            /\ r.tag = "Err"
            /\ tables' = tables
            /\ counter' = counter

\* C29: without entropy the random derivation returns an error value (it does
\* not abort) and does not advance the counter, and a StartGame invoked
\* without entropy returns an error and changes neither table nor counter.
C29_AbsentEntropyPropagates ==
    [][CallStep => NoEntropyStep]_vars

\* the card at the 0-based position i of a deck
At(d, i) == d[i + 1]

DealStep ==
    LET q == unwrap(req')
        r == unwrap(resp')
        n == Len(q.msg.players)
        seed == hkdf_sha_512(unwrap(q.env.random), to_le_bytes(counter))
        d == ShuffledNewDeck[seed]
        table == unwrap(tables'[q.msg.table_id])
        dealt == UNION {Range(table.players[k].hand) : k \in 1..n}
                   \cup Range(table.community_cards.flop.cards)
                   \cup {table.community_cards.turn.card,
                         table.community_cards.river.card}
    IN  (q.msg.op = "start_game" /\ q.env.random # None) =>
            /\ r.tag = "Ok"
            /\ Len(d) = 52
            /\ Len(table.players) = n
            /\ \A k \in 0..(n - 1) :
                   table.players[k + 1].hand
                       = <<At(d, 51 - 2 * k), At(d, 50 - 2 * k)>>
            /\ table.community_cards.flop.cards
                   = <<At(d, 51 - 2 * n), At(d, 50 - 2 * n), At(d, 49 - 2 * n)>>
            /\ table.community_cards.turn.card = At(d, 48 - 2 * n)
            /\ table.community_cards.river.card = At(d, 47 - 2 * n)
            /\ 47 - 2 * n >= 0
            /\ Cardinality(dealt) = 2 * n + 5
            /\ \A i \in 0..(46 - 2 * n) : At(d, i) \notin dealt

\* C30: a StartGame of the owner with n of 2..9 players and entropy succeeds,
\* and with d the new deck shuffled by the first number drawn, player k
\* (0-based) holds [d[51-2k], d[50-2k]], the flop is [d[51-2n], d[50-2n],
\* d[49-2n]], the turn d[48-2n] and the river d[47-2n]; the 47-2n cards at
\* d[0..46-2n] are dealt to no one.
C30_DealingOrder ==
    [][CallStep => DealStep]_vars

\* C30 witness: a hand of 9 players dealt, the river being the card at
\* position 29 of the shuffled deck
C30_NinePlayersDealt ==
    /\ req # None
    /\ unwrap(req).msg.op = "start_game"
    /\ Len(unwrap(req).msg.players) = MAX_PLAYERS
    /\ unwrap(resp).tag = "Ok"
    /\ \E seed \in Range(SampleWords) :
           /\ unwrap(tables[1]).community_cards.river.card
                  = At(ShuffledNewDeck[seed], 47 - 2 * MAX_PLAYERS)
           /\ unwrap(tables[1]).players[MAX_PLAYERS].hand[2]
                  = At(ShuffledNewDeck[seed], 50 - 2 * (MAX_PLAYERS - 1))

\* the cards a table holds: hole cards, flop, turn and river
TableCards(table) ==
    UNION {Range(table.players[k].hand) : k \in 1..Len(table.players)}
      \cup Range(table.community_cards.flop.cards)
      \cup {table.community_cards.turn.card, table.community_cards.river.card}

ValidCard(card) ==
    /\ Card_suit(card) < 4
    /\ 1 <= Card_rank(card) /\ Card_rank(card) <= 13
    /\ card = Card_new(Card_suit(card), Card_rank(card))
    /\ card \in Range(Deck_new)

CardsOfTable(table) ==
    /\ \A k \in 1..Len(table.players) : Len(table.players[k].hand) = 2
    /\ Len(table.community_cards.flop.cards) = 3
    /\ Cardinality(TableCards(table)) = 2 * Len(table.players) + 5
    /\ \A card \in TableCards(table) : ValidCard(card)

\* C31: in every reachable state every stored table holds 2 hole cards for
\* each player, 3 flop cards, a turn card and a river card, the 2n+5 cards
\* pairwise distinct and each a card of the 52-card deck with suit < 4 and
\* 1 <= rank <= 13.
C31_CardInvariant ==
    \A t \in TableIds : is_some(tables[t]) => CardsOfTable(unwrap(tables[t]))

\* C31 witness: a stored table of 9 players with its 23 cards, after a table
\* of another hand was replaced
C31_NinePlayerTableStored ==
    /\ is_some(tables[1])
    /\ Len(unwrap(tables[1]).players) = MAX_PLAYERS
    /\ unwrap(tables[1]).hand_ref = 2
    /\ Cardinality(TableCards(unwrap(tables[1]))) = 23

\* a table without its four timestamps
Unstamped(table) ==
    [hand_ref |-> table.hand_ref,
     players |-> table.players,
     flop |-> [cards |-> table.community_cards.flop.cards,
               secret |-> table.community_cards.flop.secret],
     turn |-> [card |-> table.community_cards.turn.card,
               secret |-> table.community_cards.turn.secret],
     river |-> [card |-> table.community_cards.river.card,
                secret |-> table.community_cards.river.secret]]

FrameStep(t) ==
    LET q == unwrap(req')
        r == unwrap(resp')
        old == unwrap(tables[t])
        new == unwrap(tables'[t])
        stamp == IF q.msg.op = "showdown" THEN "Showdown" ELSE q.msg.game_state
    IN  (/\ q.msg.op \in {"community_cards", "showdown"}
         /\ q.msg.table_id = t
         /\ r.tag = "Ok")
        => /\ is_some(tables[t]) /\ is_some(tables'[t])
           /\ Unstamped(new) = Unstamped(old)
           /\ DOMAIN new = DOMAIN old
           /\ DOMAIN new.community_cards = DOMAIN old.community_cards
           /\ retrieved_at(old, stamp) = None
           /\ retrieved_at(new, stamp) = Some(q.env.time)
           /\ \A other \in Stamps \ {stamp} :
                  retrieved_at(new, other) = retrieved_at(old, other)

\* C32: a successful reveal of a phase changes only that phase's timestamp,
\* which it sets to the time of the call, and a successful showdown changes
\* only the showdown timestamp; hand_ref, players with their hands, secrets
\* and shares, the community cards, the phase secrets and the other three
\* timestamps stay as they were, also when the showdown publishes community
\* cards.
C32_RevealFrame ==
    [][CallStep => \A t \in TableIds : FrameStep(t)]_vars

\* C32 witness: an all-in showdown before the flop published the five
\* community cards at time 2 and left the three phase timestamps unset
C32_AllInShowdownStampsNoPhase ==
    /\ req # None
    /\ unwrap(req).msg.op = "showdown"
    /\ unwrap(req).msg.game_state = "PreFlop"
    /\ unwrap(resp).tag = "Ok"
    /\ Len(unwrap(Payload(unwrap(resp)).community_cards)) = 5
    /\ unwrap(tables[1]).showdown_retrieved_at = Some(2)
    /\ \A p \in RevealPhases : retrieved_at(unwrap(tables[1]), p) = None

\* the result of an execute message of the owner on the storage after the step
OwnerNext(msg) ==
    execute([tables |-> tables', counter |-> counter'], config,
            [time |-> now', random |-> Some(1)], [sender |-> config.owner], msg,
            CheckedBuild, "none").result

ReadOnlyStep ==
    LET q == unwrap(req')
        r == unwrap(resp')
        t == q.msg.table_id
    IN  q.msg.op \in {"query_with_permit", "query_community_cards", "query_showdown"} =>
            /\ tables' = tables
            /\ counter' = counter
            /\ (/\ q.msg.op = "query_community_cards"
                /\ r.tag = "Ok"
                /\ ~is_some(retrieved_at(unwrap(tables[t]), q.msg.game_state)))
               => OwnerNext(CommunityCardsMsg(t, q.msg.game_state)).tag = "Ok"
            /\ (/\ q.msg.op = "query_showdown"
                /\ r.tag = "Ok"
                /\ ~is_some(retrieved_at(unwrap(tables[t]), "Showdown")))
               => OwnerNext(ShowdownMsg(t, "River",
                      <<unwrap(tables[t]).players[1].player_id>>)).tag = "Ok"

\* C33: a query, answered or refused, changes no table, no timestamp and not
\* the counter; after a community cards query answered for a phase that is
\* not revealed the owner's reveal of that phase still succeeds, and after an
\* answered showdown query on a table without showdown the owner's showdown
\* still succeeds.
C33_QueriesReadOnly ==
    [][CallStep => ReadOnlyStep]_vars

\* C33 witness: the flop of a table is handed to a query while neither the
\* flop nor the showdown is on the record
C33_FlopUnlockedOffRecord ==
    /\ req # None
    /\ unwrap(req).msg.op = "query_community_cards"
    /\ unwrap(resp).tag = "Ok"
    /\ Len(unwrap(resp).binary.json.community_cards) = 3
    /\ retrieved_at(unwrap(tables[unwrap(req).msg.table_id]), "Flop") = None
    /\ retrieved_at(unwrap(tables[unwrap(req).msg.table_id]), "Showdown") = None

\* the number derived from the entropy at the counter k above cnt
Derived(random, cnt, k) ==
    hkdf_sha_512(unwrap(random), to_le_bytes(wrapping_add(cnt, Const(U128Limbs, k))))

DerivationStep ==
    LET q == unwrap(req')
        r == unwrap(resp')
        n == Len(q.msg.players)
        table == unwrap(tables'[q.msg.table_id])
        draw(k) == Derived(q.env.random, counter, k)
        \* the phases are numbered 0, 1, 2
        secret(ph) == phase_of(table.community_cards,
                               <<"Flop", "Turn", "River">>[ph + 1]).secret
        share(ph, i) == <<table.players[i].flop_secret_share,
                          table.players[i].turn_secret_share,
                          table.players[i].river_secret_share>>[ph + 1]
    IN  (q.msg.op = "start_game" /\ r.tag = "Ok") =>
            /\ table.players[1].hand[1] = ShuffledNewDeck[draw(0)][52]
            /\ \A ph \in 0..2 :
                   /\ secret(ph) = draw(1 + ph * n)
                   /\ \A i \in 1..(n - 1) : share(ph, i) = draw(1 + ph * n + i)
            /\ \A i \in 1..n : table.players[i].hand_secret = draw(3 * n + i)
            /\ counter' = wrapping_add(counter, Const(U128Limbs, 4 * n + 1))

\* C34: a successful StartGame with n players derives, from consecutive
\* counter values starting at the stored counter, the shuffle seed, then for
\* flop, turn and river the phase secret followed by the n-1 random shares of
\* players 1..n-1, then the hand secrets of players 1..n; the stored counter
\* afterwards is 4n+1 above the one before.
C34_DerivationOrder ==
    [][CallStep => DerivationStep]_vars

\* C34 witness: after a hand of 9 players the counter stands 37 above the
\* counter the contract was instantiated with
C34_ThirtySevenDerivations ==
    /\ req # None
    /\ unwrap(req).msg.op = "start_game"
    /\ Len(unwrap(req).msg.players) = MAX_PLAYERS
    /\ unwrap(resp).tag = "Ok"
    /\ hands = 1
    /\ \E seed \in InitEntropies :
           counter = wrapping_add(init_counter([random |-> Some(seed)]).counter,
                                  Const(U128Limbs, 37))

\* the counter instantiate stored
FirstCounter ==
    init_counter([random |-> Some(CHOOSE seed \in InitEntropies : TRUE)]).counter

\* derivations of a hand of MIN_PLAYERS players
PerHand == 4 * MIN_PLAYERS + 1

\* the counter value of the k-th derivation (from 0) of the hand with hand_ref h
UsedCounter(h, k) ==
    wrapping_add(FirstCounter, Const(U128Limbs, PerHand * (h - 1) + k))

\* the derivations stored in a table of n players, in the order of their
\* counter values (the seed is not stored; the last player's shares are
\* computed, not derived)
StoredDerivations(table) ==
    LET n == Len(table.players)
        shares(i) == <<table.players[i].flop_secret_share,
                       table.players[i].turn_secret_share,
                       table.players[i].river_secret_share>>
        secrets == <<table.community_cards.flop.secret,
                     table.community_cards.turn.secret,
                     table.community_cards.river.secret>>
    IN  [k \in 1..(4 * n) |->
            IF k <= 3 * n
            THEN (IF (k - 1) % n = 0 THEN secrets[((k - 1) \div n) + 1]
                  ELSE shares((k - 1) % n)[((k - 1) \div n) + 1])
            ELSE table.players[k - 3 * n].hand_secret]

\* the counter values of the derivations 0..4n of the hand with hand_ref h
Block(h) == [k \in 0..(4 * MIN_PLAYERS) |-> UsedCounter(h, k)]

OwnCounters(t) ==
    \A table \in {unwrap(tables[t])} :
    \A block \in {Block(table.hand_ref)} :
    \A stored \in {StoredDerivations(table)} :
        /\ table.hand_ref \in 1..hands
        /\ Len(table.players) = MIN_PLAYERS
        /\ \A k \in 1..(4 * MIN_PLAYERS) :
               stored[k] = hkdf_sha_512(1, to_le_bytes(block[k]))
        /\ table.players[1].hand[1]
               = ShuffledNewDeck[hkdf_sha_512(1, to_le_bytes(block[0]))][52]
        /\ \A k \in DOMAIN block : Less(block[k], counter)
        /\ Cardinality(Range(block)) = 4 * MIN_PLAYERS + 1
        /\ \A other \in TableIds \ {t} :
               is_some(tables[other]) =>
                   Range(block) \cap Range(Block(unwrap(tables[other]).hand_ref)) = {}

\* C35: in every reachable state the derivations of every stored table were
\* computed from the counter values of that hand's own block, the blocks of
\* two stored tables share no counter value, no value of a block is used
\* twice in it, every used value lies below the stored counter, and the
\* stored counter is the first counter plus the derivations of all hands
\* dealt; so no counter value serves two derivations.
C35_CountersNotReused ==
    /\ counter = UsedCounter(hands + 1, 0)
    /\ \A t \in TableIds : is_some(tables[t]) => OwnCounters(t)

\* C35 witness: both tables hold a hand, the flop of the first revealed, and
\* the counter stands two blocks above the first counter
C35_TwoTablesTwoBlocks ==
    /\ is_some(tables[1])
    /\ is_some(tables[2])
    /\ unwrap(tables[1]).hand_ref # unwrap(tables[2]).hand_ref
    /\ is_some(retrieved_at(unwrap(tables[1]), "Flop"))
    /\ counter = wrapping_add(FirstCounter, Const(U128Limbs, 2 * PerHand))

\* the accepted candidate of a pass: the hash of (seed, i, attempt) for the
\* first attempt, counted from the given one, whose value is below the bound
RECURSIVE AcceptedCandidate(_, _, _, _)
AcceptedCandidate(seed, i, bound, attempt) ==
    IF Less(Sha256(seed, i, attempt), bound) THEN Sha256(seed, i, attempt)
    ELSE AcceptedCandidate(seed, i, bound, attempt + 1)

\* a pass of the shuffle loop has run
PassStep == shuffle.deck_len > 1 /\ shuffle'.deck_len = shuffle.deck_len - 1

\* the pass at position i swapped i with candidate % (i + 1), the remainder
\* taken on all 64 bits of the candidate, and left the positions above i alone
SwapOfPass(i) ==
    \A candidate \in {AcceptedCandidate(shuffle.seed, i, threshold(i + 1), 0)} :
        \A j \in {ModSmall(candidate, i + 1)} :
            /\ Less(candidate, threshold(i + 1))
            /\ 0 <= j /\ j <= i
            /\ shuffle'.cards = swap(shuffle.cards, i, j)
            /\ \A k \in (i + 1)..(Len(Deck_new) - 1) :
                   shuffle'.cards[k + 1] = shuffle.cards[k + 1]

\* C36: every pass of the shuffle loop, at position i from 51 down to 1,
\* swaps position i with j = candidate % (i + 1), where candidate is the first
\* hash of (seed, i, attempt), attempt = 0, 1, 2, ..., strictly below the
\* threshold and the remainder is taken on all 64 bits of it; j lies in 0..i
\* and no position above i changes.
C36_SwapIndexOnFullCandidate ==
    [][PassStep => SwapOfPass(shuffle.deck_len - 1)]_vars

\* 2^64 - a for a 64-bit a, on one limb more: (u64::MAX - a) + 1
RejectedCount(a) ==
    wrapping_add(AsSeq([i \in 1..(U64Limbs + 1) |->
                           IF i <= U64Limbs THEN LimbBase - 1 - a[i] ELSE 0]),
                 Const(U64Limbs + 1, 1))

\* 2^63 on the limbs of RejectedCount
HalfOfCandidates ==
    AsSeq([i \in 1..(U64Limbs + 1) |-> IF i = U64Limbs THEN LimbBase \div 2 ELSE 0])

\* the attempt number at which the loop of a pass ends: the first attempt,
\* counted from the given one, whose hash of (seed, i, attempt) is below bound
RECURSIVE AcceptedAttempt(_, _, _, _)
AcceptedAttempt(seed, i, bound, attempt) ==
    IF Less(Sha256(seed, i, attempt), bound) THEN attempt
    ELSE AcceptedAttempt(seed, i, bound, attempt + 1)

\* the pass at position i ended at its first accepted candidate, whatever the
\* number of rejected ones before it, and fewer than 2^63 candidates are
\* rejected for its upper bound
SamplingOfPass(i, usize_limbs) ==
    \A bound \in {threshold(i + 1)} :
        \A n \in {AcceptedAttempt(shuffle.seed, i, bound, 0)} :
            /\ Less(RejectedCount(bound), HalfOfCandidates)
            /\ \A a \in 0..(n - 1) : ~Less(Sha256(shuffle.seed, i, a), bound)
            /\ Less(Sha256(shuffle.seed, i, n), bound)
            /\ shuffle'.cards
                 = swap(shuffle.cards, i,
                        ModSmall(SubSeq(Sha256(shuffle.seed, i, n), 1, usize_limbs),
                                 i + 1))

\* C37: at every pass of the shuffle loop, with upper bound m = i + 1 from 52
\* down to 2, fewer than half of the 2^64 candidate values lie at or above the
\* threshold (2^64 - threshold < 2^63), and the pass uses the first candidate
\* below the threshold, after every rejected one before it, with no limit on
\* the attempts.
C37_RejectionRateBelowHalf ==
    [][PassStep => SamplingOfPass(shuffle.deck_len - 1, shuffle.usize_limbs)]_vars

\* C37 witness: a pass (upper bound 30) whose first candidate, u64::MAX, was
\* rejected has swapped on its second candidate
C37_PassAfterRejection ==
    /\ shuffle.deck_len = 29
    /\ Sha256(shuffle.seed, 29, 0) = U64Max
    /\ AcceptedAttempt(shuffle.seed, 29, threshold(30), 0) = 1
    /\ shuffle.cards[30] # Deck_new[30]

---------------------------------------------------------------------------
(* Showdowns on their own: the owner deals to a table whose seats are not   *)
(* in id order, or to one where two players carry one id, and asks for the  *)
(* hands of id lists in several orders, with repeats and with strangers.    *)

\* three players with distinct keys, the first two registered under id 1
TwinIdPlayers ==
    <<StartGamePlayer(1), [StartGamePlayer(2) EXCEPT !.player_id = 1],
      StartGamePlayer(3)>>

ShowdownPlayerLists == {LastFirst(MAX_PLAYERS), TwinIdPlayers}

\* ids asked for: none, two in falling order, one id twice around another,
\* and a list whose first id is on the 9-player table only
ShowdownRequests == { <<>>, <<3, 1>>, <<1, 3, 1>>, <<9, 1>> }

NextShowdown ==
    \/ \E players \in ShowdownPlayerLists, random \in DealEntropies \ {None} :
          StartGame("creator", 1, hands + 1, players, <<>>, now, random,
                    CheckedBuild, "none")
    \/ \E game_state \in ShowdownStates, ids \in ShowdownRequests :
          Showdown("creator", 1, game_state, ids, now, Some(1), CheckedBuild, "none")
    \/ Return

SpecShowdown == Init /\ [][NextShowdown]_vars

\* the seat (0-based) of the first player registered under an id
FirstSeat(players, player_id) ==
    CHOOSE k \in 0..(Len(players) - 1) :
        /\ players[k + 1].player_id = player_id
        /\ \A l \in 0..(k - 1) : players[l + 1].player_id # player_id

\* the players of a table hold the cards a shuffled new deck deals them
DealtFrom(players, d) ==
    \A k \in 0..(Len(players) - 1) :
        players[k + 1].hand = <<At(d, 51 - 2 * k), At(d, 50 - 2 * k)>>

ShowdownPairsStep ==
    LET q == unwrap(req')
        r == unwrap(resp')
        ids == q.msg.showdown_player_ids
        table == unwrap(tables[q.msg.table_id])
    IN  /\ (q.msg.op # "start_game" /\ is_some(tables[1])) =>
               /\ is_some(tables'[1])
               /\ unwrap(tables'[1]).players = unwrap(tables[1]).players
        /\ (q.msg.op = "showdown" /\ r.tag = "Ok") =>
               \A pairs \in {Payload(r).players_cards} :
                   /\ Len(pairs) = Len(ids)
                   /\ \E seed \in Range(SampleWords) :
                          /\ DealtFrom(table.players, ShuffledNewDeck[seed])
                          /\ \A i \in 1..Len(ids) :
                                 \A k \in {FirstSeat(table.players, ids[i])} :
                                     /\ table.players[k + 1].player_id = ids[i]
                                     /\ pairs[i][1] = ids[i]
                                     /\ Len(pairs[i][2]) = 2
                                     /\ pairs[i][2] = table.players[k + 1].hand
                                     /\ pairs[i][2]
                                          = <<At(ShuffledNewDeck[seed], 51 - 2 * k),
                                              At(ShuffledNewDeck[seed], 50 - 2 * k)>>

\* C38: a Showdown that succeeds returns one (player id, hand) pair for each
\* requested id, in the order of the request, the id being the requested one
\* and the hand the two cards dealt at StartGame to the player registered
\* under it (the first such player of the table where two share an id); the
\* hands of a table do not change between its StartGame and the showdown.
C38_ShowdownPairsInRequestOrder ==
    [][CallStep => ShowdownPairsStep]_vars

\* C38 witness: on a table whose first two players share id 1, the showdown
\* asked for ids 1, 3, 1 has answered with the first player's hand, the third
\* player's and the first player's again
C38_TwinIdAnsweredTwice ==
    /\ req # None
    /\ unwrap(req).msg.op = "showdown"
    /\ unwrap(req).msg.showdown_player_ids = <<1, 3, 1>>
    /\ unwrap(resp).tag = "Ok"
    /\ unwrap(tables[1]).players[2].player_id = 1
    /\ unwrap(tables[1]).players[1].hand # unwrap(tables[1]).players[2].hand
    /\ Payload(unwrap(resp)).players_cards
         = << <<1, unwrap(tables[1]).players[1].hand>>,
              <<3, unwrap(tables[1]).players[3].hand>>,
              <<1, unwrap(tables[1]).players[1].hand>> >>

====
